---- MODULE Spec2Model ----
(***************************************************************************)
(* A model of the js-helpers library (GaiaTools/js-helpers).               *)
(*                                                                         *)
(* The library is a set of synchronous functions.  The model keeps the     *)
(* JavaScript heap the caller's objects live in, one pending call, and     *)
(* the outcome of that call.  Objects have identity (a heap address) and   *)
(* keep their keys in insertion order, as Object.keys reports them.        *)
(*                                                                         *)
(* ObjectHelper is modelled from src/src/ObjectHelper.js, the module that  *)
(* src/src/index.js exports and the ObjectHelper tests exercise.  The      *)
(* older CommonJS file src/ObjectHelper.js differs from it in three        *)
(* places: merge makes a new mapping only when target[key] is falsy, its   *)
(* message is 'Target is not an object', and remove defaults to null.      *)
(*                                                                         *)
(* Objects are plain, extensible objects with writable, configurable data  *)
(* properties, and the objects handed to one call share no object with     *)
(* each other.  Property names range over ordinary names ("a", "b", "c"):  *)
(* none of them is defined on Object.prototype, so a read of a key an      *)
(* object does not own yields undefined.                                   *)
(*                                                                         *)
(* The Html builders are modelled from the functions of src/src/index.js   *)
(* (tag, a, form, input, hiddenInput, renderContent, setAttributes), on a  *)
(* document of DOM nodes.  The older class src/src/Html.js differs from    *)
(* them: its renderContent assigns innerHTML and does not test for null,   *)
(* its setAttributes tests for the empty string and not for null or false. *)
(* HtmlSpec is the specification of the builders: one call of one builder  *)
(* on the caller's nodes and options.  Strings are ASCII, a node handed in *)
(* as content is no ancestor of the element it is rendered into, and the   *)
(* arguments have the types the builders document.                         *)
(*                                                                         *)
(* The other builders of src/src/index.js are modelled the same way: img,  *)
(* label, button, resetButton, submitButton, booleanInput, checkbox,       *)
(* radio, select, listBox, renderSelectOptions, checkboxList, radioList,   *)
(* ul, ol, addClass and removeClass.  The items of a list are an object    *)
(* of string values under the keys "a", "b" and "null"; a selection is a   *)
(* string, an array of strings or null; the items of ul and ol are         *)
(* strings, numbers and elements.  encodeHTML of the entities package      *)
(* replaces the characters <, >, &, " and ' by character references, and   *)
(* innerHTML decodes them again.  classList is the ordered set of the      *)
(* tokens of the class attribute.                                          *)
(***************************************************************************)
EXTENDS Integers, Sequences, FiniteSets, TLC

VARIABLES heap, heap0, dom, dom0, call, pc, ret

vars == <<heap, heap0, dom, dom0, call, pc, ret>>

(***************************************************************************)
(* Bounds of the model.                                                    *)
(***************************************************************************)
\* Deepest nesting of the object literals handed to a two-argument merge.
MaxDepth == 2
\* Largest number of sources handed to one merge call.
MaxSources == 2

(***************************************************************************)
(* JavaScript values.  A value is a kind and a payload: the numeric value, *)
(* 0 or 1 for a boolean, the characters of a string, the identity of a     *)
(* function, the items of an array, the heap address of an object, or the  *)
(* place of a DOM node in the document's nodes.                            *)
(***************************************************************************)
Val(kind, n) == [k |-> kind, v |-> n]
Undefined == Val("undefined", 0)
Null == Val("null", 0)
Num(n) == Val("number", n)
Bool(n) == Val("boolean", n)
Str(n) == Val("string", n)
ArrayOf(items) == Val("array", items)
\* the array [n]
Arr(n) == ArrayOf(<<Num(n)>>)
Fn(n) == Val("function", n)
Ref(n) == Val("object", n)
\* a Node object, and the live NodeList that is node n's childNodes
NodeRef(n) == Val("node", n)
NodeList(n) == Val("nodelist", n)

\* A string is the sequence of its characters.
StrEmpty == Str(<<>>)
StrS == Str(<<"s">>)
StrDefault == Str(<<"d", "e", "f">>)

\* typeof value
typeof(value) ==
    CASE value.k = "undefined" -> "undefined"
      [] value.k = "null" -> "object"
      [] value.k = "number" -> "number"
      [] value.k = "boolean" -> "boolean"
      [] value.k = "string" -> "string"
      [] value.k = "array" -> "object"
      [] value.k = "function" -> "function"
      [] value.k = "object" -> "object"
      [] value.k = "node" -> "object"
      [] value.k = "nodelist" -> "object"

\* Array.isArray(value)
isArray(value) == value.k = "array"

\* The truthiness of a value, as the ! operator sees it.
ToBoolean(value) ==
    CASE value.k \in {"undefined", "null"} -> FALSE
      [] value.k \in {"number", "boolean"} -> value.v # 0
      [] value.k = "string" -> value.v # <<>>
      [] OTHER -> TRUE

(***************************************************************************)
(* The heap: a sequence of objects, an object's address is its index.      *)
(***************************************************************************)
EmptyObject == [keys |-> <<>>, at |-> <<>>]

SeqRange(s) == {s[i] : i \in 1..Len(s)}

\* Object.keys(o), in insertion order
ObjectKeys(h, o) == h[o.v].keys

\* Object.hasOwnProperty.call(o, key)
hasOwnProperty(h, o, key) == key \in SeqRange(h[o.v].keys)

\* o[key]
Get(h, o, key) == IF hasOwnProperty(h, o, key) THEN h[o.v].at[key] ELSE Undefined

\* o[key] = value
Put(h, o, key, value) ==
    LET obj == h[o.v]
        ks == IF hasOwnProperty(h, o, key) THEN obj.keys ELSE Append(obj.keys, key)
    IN [h EXCEPT ![o.v] =
            [keys |-> ks,
             at |-> [x \in SeqRange(ks) |-> IF x = key THEN value ELSE obj.at[x]]]]

\* delete o[key]
Delete(h, o, key) ==
    LET obj == h[o.v]
        ks == SelectSeq(obj.keys, LAMBDA x : x # key)
    IN [h EXCEPT ![o.v] = [keys |-> ks, at |-> [x \in SeqRange(ks) |-> obj.at[x]]]]

\* the object literal {}: a new object at the next address
NewObject(h) == Append(h, EmptyObject)
NewRef(h) == Ref(Len(h) + 1)

(***************************************************************************)
(* Outcomes of a call: the heap it leaves, what it returned or threw, and  *)
(* the sources whose type it examined, in order.                           *)
(***************************************************************************)
NoError == [name |-> "", message |-> ""]
Error(message) == [name |-> "Error", message |-> message]

Returned(h, value, read) == [heap |-> h, thrown |-> NoError, value |-> value, read |-> read]
Thrown(h, error, read) == [heap |-> h, thrown |-> error, value |-> Undefined, read |-> read]
Failed(r) == r.thrown # NoError
Outcome(r) == [thrown |-> r.thrown, value |-> r.value, read |-> r.read]
NoOutcome == [thrown |-> NoError, value |-> Undefined, read |-> <<>>]

(***************************************************************************)
(* ObjectHelper                                                            *)
(***************************************************************************)
\* a && b: the left operand when it is falsy, else the right operand
JsAnd(a, b) == IF ToBoolean(a) THEN b ELSE a

\* the boolean a comparison or a ! yields
JsBool(p) == IF p THEN Bool(1) ELSE Bool(0)

\* isObject as the older file has it: return (item && typeof item === 'object'
\* && !Array.isArray(item)), which hands back a falsy item itself.
isObjectResult_truthyItem(item) ==
    JsAnd(JsAnd(item, JsBool(typeof(item) = "object")), JsBool(~isArray(item)))

\* The value ObjectHelper.isObject(item) returns.
isObjectResult(item) ==
    JsAnd(JsAnd(JsAnd(JsBool(item # Null),
                      JsBool(typeof(item) = "object")),
                JsBool(~isArray(item))),
          JsBool(typeof(item) # "function"))

\* if (this.isObject(item)): the test the callers make
isObject(item) ==
    /\ item # Null
    /\ typeof(item) = "object"
    /\ ~isArray(item)
    /\ typeof(item) # "function"

RECURSIVE merge(_, _, _)
RECURSIVE mergeSources(_, _, _, _, _)
RECURSIVE mergeKeys(_, _, _, _, _, _)

RECURSIVE mergeKeysFaulty(_, _, _, _, _, _, _)
\* mergeKeys with one fault:
\*   "overwrite"  a mapping of the source is assigned, not merged;
\*   "keep"       a non-mapping of the source does not replace an existing value;
\*   "falsy"      a new mapping is made only when target[key] is falsy;
\*   "first"      the loop ends after the first key.
mergeKeysFaulty(fault, h, target, source, keys, j, read) ==
    IF j > Len(keys) \/ (fault = "first" /\ j > 1) THEN Returned(h, Undefined, read)
    ELSE
        LET key == keys[j]
            srcValue == Get(h, source, key)
            fresh == IF fault = "falsy"
                     THEN ~ToBoolean(Get(h, target, key))
                     ELSE ~ToBoolean(Get(h, target, key)) \/ ~isObject(Get(h, target, key))
            r == IF isObject(srcValue) /\ fault # "overwrite"
                 THEN LET h1 == IF fresh THEN Put(NewObject(h), target, key, NewRef(h)) ELSE h
                          inner == merge(h1, Get(h1, target, key), <<srcValue>>)
                      IN [inner EXCEPT !.read = read \o inner.read]
                 ELSE IF fault = "keep" /\ hasOwnProperty(h, target, key)
                      THEN Returned(h, Undefined, read)
                      ELSE Returned(Put(h, target, key, srcValue), Undefined, read)
        IN IF Failed(r) THEN r
           ELSE mergeKeysFaulty(fault, r.heap, target, source, keys, j + 1, r.read)

mergeKeys_overwrite(h, target, source, keys, j, read) ==
    mergeKeysFaulty("overwrite", h, target, source, keys, j, read)

mergeKeys_keep(h, target, source, keys, j, read) ==
    mergeKeysFaulty("keep", h, target, source, keys, j, read)

mergeKeys_falsy(h, target, source, keys, j, read) ==
    mergeKeysFaulty("falsy", h, target, source, keys, j, read)

mergeKeys_first(h, target, source, keys, j, read) ==
    mergeKeysFaulty("first", h, target, source, keys, j, read)

\* The body of Object.keys(source).forEach(key => ...), from the j-th key on.
mergeKeys(h, target, source, keys, j, read) ==
    IF j > Len(keys) THEN Returned(h, Undefined, read)
    ELSE
        LET key == keys[j]
            srcValue == Get(h, source, key)
            r == IF isObject(srcValue)
                 THEN LET h1 == IF ~ToBoolean(Get(h, target, key)) \/ ~isObject(Get(h, target, key))
                                THEN Put(NewObject(h), target, key, NewRef(h))
                                ELSE h
                          inner == merge(h1, Get(h1, target, key), <<srcValue>>)
                      IN [inner EXCEPT !.read = read \o inner.read]
                 ELSE Returned(Put(h, target, key, srcValue), Undefined, read)
        IN IF Failed(r) THEN r
           ELSE mergeKeys(r.heap, target, source, keys, j + 1, r.read)

\* mergeSources that walks the sources from the last to the first.
mergeSources_reversed(h, target, sources, i, read) ==
    IF i > Len(sources) THEN Returned(h, Undefined, read)
    ELSE
        LET source == sources[Len(sources) + 1 - i]
            read1 == Append(read, source)
            r == IF isObject(source)
                 THEN mergeKeys(h, target, source, ObjectKeys(h, source), 1, read1)
                 ELSE Returned(h, Undefined, read1)
        IN IF Failed(r) THEN r
           ELSE mergeSources(r.heap, target, sources, i + 1, r.read)

\* mergeSources that gives up at the first source that is not a mapping.
mergeSources_stops(h, target, sources, i, read) ==
    IF i > Len(sources) THEN Returned(h, Undefined, read)
    ELSE
        LET source == sources[i]
            read1 == Append(read, source)
        IN IF ~isObject(source) THEN Returned(h, Undefined, read1)
           ELSE LET r == mergeKeys(h, target, source, ObjectKeys(h, source), 1, read1)
                IN IF Failed(r) THEN r
                   ELSE mergeSources(r.heap, target, sources, i + 1, r.read)

\* The body of sources.forEach(source => ...), from the i-th source on.
mergeSources(h, target, sources, i, read) ==
    IF i > Len(sources) THEN Returned(h, Undefined, read)
    ELSE
        LET source == sources[i]
            read1 == Append(read, source)
            r == IF isObject(source)
                 THEN mergeKeys(h, target, source, ObjectKeys(h, source), 1, read1)
                 ELSE Returned(h, Undefined, read1)
        IN IF Failed(r) THEN r
           ELSE mergeSources(r.heap, target, sources, i + 1, r.read)

\* merge that returns early when it has no sources, before it looks at target.
merge_lateCheck(h, target, sources) ==
    IF Len(sources) = 0 THEN Returned(h, target, <<>>)
    ELSE IF ~isObject(target)
    THEN Thrown(h, Error("Target must be an object"), <<>>)
    ELSE LET r == mergeSources(h, target, sources, 1, <<>>)
         IN IF Failed(r) THEN r ELSE Returned(r.heap, target, r.read)

\* merge that builds and returns a new object and leaves target alone.
merge_copy(h, target, sources) ==
    IF ~isObject(target)
    THEN Thrown(h, Error("Target must be an object"), <<>>)
    ELSE LET r == mergeSources(NewObject(h), NewRef(h), <<target>> \o sources, 1, <<>>)
         IN IF Failed(r) THEN r ELSE Returned(r.heap, NewRef(h), r.read)

merge(h, target, sources) ==
    IF ~isObject(target)
    THEN Thrown(h, Error("Target must be an object"), <<>>)
    ELSE LET r == mergeSources(h, target, sources, 1, <<>>)
         IN IF Failed(r) THEN r ELSE Returned(r.heap, target, r.read)

\* remove that tests the value of the property instead of its ownership.
remove_truthy(h, target, property, rest) ==
    LET defaultValue == IF Len(rest) >= 1 /\ rest[1] # Undefined THEN rest[1] ELSE Undefined
    IN IF isObject(target) /\ ToBoolean(Get(h, target, property))
       THEN LET value == Get(h, target, property)
            IN Returned(Delete(h, target, property), value, <<>>)
       ELSE Returned(h, defaultValue, <<>>)

\* remove whose defaultValue parameter defaults to null.
remove_nullDefault(h, target, property, rest) ==
    LET defaultValue == IF Len(rest) >= 1 /\ rest[1] # Undefined THEN rest[1] ELSE Null
    IN IF isObject(target) /\ hasOwnProperty(h, target, property)
       THEN LET value == Get(h, target, property)
            IN Returned(Delete(h, target, property), value, <<>>)
       ELSE Returned(h, defaultValue, <<>>)

\* rest: <<>> when the call passes no third argument, else <<defaultValue>>
remove(h, target, property, rest) ==
    LET defaultValue == IF Len(rest) >= 1 /\ rest[1] # Undefined THEN rest[1] ELSE Undefined
    IN IF isObject(target) /\ hasOwnProperty(h, target, property)
       THEN LET value == Get(h, target, property)
            IN Returned(Delete(h, target, property), value, <<>>)
       ELSE Returned(h, defaultValue, <<>>)

(***************************************************************************)
(* Strings.  The characters are ASCII: a string holds no character that    *)
(* takes more than one byte in UTF-8.                                      *)
(***************************************************************************)
Digits == <<"0", "1", "2", "3", "4", "5", "6", "7", "8", "9">>
UpperCase == <<"A", "B", "C", "D", "E", "F", "G", "H", "I", "J", "K", "L", "M", "N", "O", "P", "Q", "R", "S", "T", "U", "V", "W", "X", "Y", "Z">>
LowerCase == <<"a", "b", "c", "d", "e", "f", "g", "h", "i", "j", "k", "l", "m", "n", "o", "p", "q", "r", "s", "t", "u", "v", "w", "x", "y", "z">>
HexUpper == <<"0", "1", "2", "3", "4", "5", "6", "7", "8", "9", "A", "B", "C", "D", "E", "F">>
HexLower == <<"0", "1", "2", "3", "4", "5", "6", "7", "8", "9", "a", "b", "c", "d", "e", "f">>
\* The characters with the codes 32 to 126, in order; the grave accent
\* (code 96) is written by its name.
AsciiPrintable ==
    <<" ", "!", "\"", "#", "$", "%", "&", "'", "(", ")", "*", "+",
     ",", "-", ".", "/", "0", "1", "2", "3", "4", "5", "6", "7",
     "8", "9", ":", ";", "<", "=", ">", "?", "@", "A", "B", "C",
     "D", "E", "F", "G", "H", "I", "J", "K", "L", "M", "N", "O",
     "P", "Q", "R", "S", "T", "U", "V", "W", "X", "Y", "Z", "[",
     "\\", "]", "^", "_", "<grave>", "a", "b", "c", "d", "e", "f", "g",
     "h", "i", "j", "k", "l", "m", "n", "o", "p", "q", "r", "s",
     "t", "u", "v", "w", "x", "y", "z", "{", "|", "}", "~">>

\* the place of character c in a table that holds it
PlaceIn(table, c) == CHOOSE i \in 1..Len(table) : table[i] = c

RECURSIVE NumberToString(_)
\* n.toString() for a natural number
NumberToString(n) ==
    IF n < 10 THEN <<Digits[n + 1]>>
    ELSE NumberToString(n \div 10) \o <<Digits[(n % 10) + 1]>>

RECURSIVE toString(_), join(_, _)
\* value.toString(), for a value that is neither null nor undefined
toString(value) ==
    CASE value.k = "string" -> value.v
      [] value.k = "number" -> NumberToString(value.v)
      [] value.k = "boolean" -> IF value.v = 1 THEN <<"t", "r", "u", "e">> ELSE <<"f", "a", "l", "s", "e">>
      [] value.k = "array" -> join(value.v, <<",">>)
      [] value.k = "function" -> <<"f", "u", "n", "c", "t", "i", "o", "n", " ", "(", ")", " ", "{", "}">>
      [] value.k = "object" -> <<"[", "o", "b", "j", "e", "c", "t", " ", "O", "b", "j", "e", "c", "t", "]">>
      [] value.k = "node" -> <<"[", "o", "b", "j", "e", "c", "t", " ", "H", "T", "M", "L", "E", "l", "e", "m", "e", "n", "t", "]">>
      [] value.k = "nodelist" -> <<"[", "o", "b", "j", "e", "c", "t", " ", "N", "o", "d", "e", "L", "i", "s", "t", "]">>

\* items.join(separator)
join(items, separator) ==
    IF items = <<>> THEN <<>>
    ELSE LET first == IF Head(items).k \in {"null", "undefined"} THEN <<>>
                      ELSE toString(Head(items))
         IN IF Len(items) = 1 THEN first
            ELSE first \o separator \o join(Tail(items), separator)

\* String(value)
StringOf(value) ==
    CASE value.k = "null" -> <<"n", "u", "l", "l">>
      [] value.k = "undefined" -> <<"u", "n", "d", "e", "f", "i", "n", "e", "d">>
      [] OTHER -> toString(value)

\* s.indexOf(c) for a one-character c
indexOf(s, c) ==
    IF \E i \in 1..Len(s) : s[i] = c
    THEN (CHOOSE i \in 1..Len(s) : s[i] = c /\ \A j \in 1..(i - 1) : s[j] # c) - 1
    ELSE -1

\* s.substring(from, to) and s.substring(from), for 0 <= from <= to <= s.length
substring(s, from, to) == SubSeq(s, from + 1, to)
substringFrom(s, from) == SubSeq(s, from + 1, Len(s))

\* s.toLowerCase()
toLowerCase(s) ==
    [i \in 1..Len(s) |->
        IF s[i] \in SeqRange(UpperCase) THEN LowerCase[PlaceIn(UpperCase, s[i])] ELSE s[i]]

RECURSIVE split(_, _)
\* s.split(c) for a one-character c
split(s, c) ==
    LET at == indexOf(s, c)
    IN IF at = -1 THEN <<s>>
       ELSE <<substring(s, 0, at)>> \o split(substringFrom(s, at + 1), c)

isHex(c) == c \in SeqRange(HexUpper) \cup SeqRange(HexLower)
HexValue(c) ==
    IF c \in SeqRange(HexUpper) THEN PlaceIn(HexUpper, c) - 1 ELSE PlaceIn(HexLower, c) - 1
\* the byte that the escape %xy stands for
EscapedByte(x, y) == 16 * HexValue(x) + HexValue(y)
\* The character with the given code below 128; a control character is
\* written by its name.
CharOfCode(code) ==
    IF code >= 32 /\ code <= 126 THEN AsciiPrintable[code - 31] ELSE "<control>"
StartsWithEscape(s) == Len(s) >= 3 /\ s[1] = "%" /\ isHex(s[2]) /\ isHex(s[3])

URIError(message) == [name |-> "URIError", message |-> message]
TypeError(message) == [name |-> "TypeError", message |-> message]

RECURSIVE decodeURIComponent(_)
\* decodeURIComponent(s): the decoded characters, or URIError for a "%"
\* that starts no escape of a character.
decodeURIComponent(s) ==
    IF s = <<>> THEN [thrown |-> NoError, out |-> <<>>]
    ELSE IF Head(s) # "%"
    THEN LET rest == decodeURIComponent(Tail(s))
         IN [thrown |-> rest.thrown, out |-> <<Head(s)>> \o rest.out]
    ELSE IF StartsWithEscape(s) /\ EscapedByte(s[2], s[3]) < 128
    THEN LET rest == decodeURIComponent(SubSeq(s, 4, Len(s)))
         IN [thrown |-> rest.thrown, out |-> <<CharOfCode(EscapedByte(s[2], s[3]))>> \o rest.out]
    ELSE [thrown |-> URIError("URI malformed"), out |-> <<>>]

RECURSIVE percentDecode(_)
\* The percent-decoding URLSearchParams applies: an escape becomes its
\* character, "+" a space, and a "%" that starts no escape stays.
percentDecode(s) ==
    IF s = <<>> THEN <<>>
    ELSE IF StartsWithEscape(s)
    THEN LET byte == EscapedByte(s[2], s[3])
         IN <<IF byte < 128 THEN CharOfCode(byte) ELSE "<U+FFFD>">>
                \o percentDecode(SubSeq(s, 4, Len(s)))
    ELSE <<IF Head(s) = "+" THEN " " ELSE Head(s)>> \o percentDecode(Tail(s))

\* One name/value pair of a query string: split at its first "=".
QueryPair(piece) ==
    LET eq == indexOf(piece, "=")
    IN IF eq = -1 THEN [name |-> percentDecode(piece), value |-> <<>>]
       ELSE [name |-> percentDecode(substring(piece, 0, eq)),
             value |-> percentDecode(substringFrom(piece, eq + 1))]

\* new URLSearchParams(init), as its iterator yields the pairs
URLSearchParams(init) ==
    LET query == IF init # <<>> /\ Head(init) = "?" THEN Tail(init) ELSE init
        pieces == SelectSeq(split(query, "&"), LAMBDA piece : piece # <<>>)
    IN [i \in 1..Len(pieces) |-> QueryPair(pieces[i])]

(***************************************************************************)
(* The DOM.  The document's nodes are a sequence, a node's place in it is  *)
(* its identity.  A node keeps its attributes, the properties assigned to  *)
(* it, its inline style and its dataset as lists of name/value entries in  *)
(* the order they were first set, and its children in document order.      *)
(* A property assigned to an element is kept under the name it was         *)
(* assigned to; how the browser reflects a property in the markup is not   *)
(* part of the model.                                                      *)
(***************************************************************************)
Entry(name, value) == [name |-> name, value |-> value]
hasEntry(entries, name) == \E i \in 1..Len(entries) : entries[i].name = name
getEntry(entries, name) == entries[CHOOSE i \in 1..Len(entries) : entries[i].name = name].value
setEntry(entries, name, value) ==
    IF hasEntry(entries, name)
    THEN [i \in 1..Len(entries) |->
            IF entries[i].name = name THEN Entry(name, value) ELSE entries[i]]
    ELSE Append(entries, Entry(name, value))

NewNode(type, name, data) ==
    [nodeType |-> type, nodeName |-> name, attributes |-> <<>>, properties |-> <<>>,
     style |-> <<>>, dataset |-> <<>>, childNodes |-> <<>>, data |-> data]
Element(name) == NewNode("element", name, <<>>)
TextNode(data) == NewNode("text", <<"#", "t", "e", "x", "t">>, data)
DocumentFragment == NewNode("fragment", <<"#", "d", "o", "c", "u", "m", "e", "n", "t", "-", "f", "r", "a", "g", "m", "e", "n", "t">>, <<>>)

\* The place the next node made in document d gets.
NextNode(d) == Len(d) + 1
\* document.createElement(name), in an HTML document
createElement(d, name) == Append(d, Element(toLowerCase(name)))
\* document.createTextNode(data)
createTextNode(d, data) == Append(d, TextNode(data))
\* new DocumentFragment()
createDocumentFragment(d) == Append(d, DocumentFragment)

isNode(value) == value.k = "node"
\* the items a NodeList holds now
NodeListItems(d, list) ==
    [i \in 1..Len(d[list.v].childNodes) |-> NodeRef(d[list.v].childNodes[i])]

RECURSIVE removeFromParent(_, _)
\* Takes node n out of its parent's children, if it has a parent.
removeFromParent(d, n) ==
    IF d = <<>> THEN <<>>
    ELSE <<[Head(d) EXCEPT !.childNodes = SelectSeq(@, LAMBDA c : c # n)]>>
            \o removeFromParent(Tail(d), n)

\* parent.appendChild(child) for a node child that is no ancestor of parent:
\* the children of a fragment move to the parent and leave the fragment
\* empty; any other node leaves its old parent and becomes the last child.
appendChild(d, parent, child) ==
    IF d[child].nodeType = "fragment"
    THEN [d EXCEPT ![parent].childNodes = @ \o d[child].childNodes,
                   ![child].childNodes = <<>>]
    ELSE [removeFromParent(d, child) EXCEPT ![parent].childNodes = Append(@, child)]

\* node.textContent = s: the children are replaced by one text node, by
\* nothing when s is the empty string
setTextContent(d, n, s) ==
    IF s = <<>> THEN [d EXCEPT ![n].childNodes = <<>>]
    ELSE [createTextNode(d, s) EXCEPT ![n].childNodes = <<NextNode(d)>>]

\* node.textContent
RECURSIVE textContent(_, _), textContentOf(_, _)
textContentOf(d, nodes) ==
    IF nodes = <<>> THEN <<>> ELSE textContent(d, Head(nodes)) \o textContentOf(d, Tail(nodes))
textContent(d, n) ==
    IF d[n].nodeType = "text" THEN d[n].data ELSE textContentOf(d, d[n].childNodes)

\* The characters with a special meaning in markup and their entity names.
EntityName(c) ==
    CASE c = "<" -> <<"l", "t">>
      [] c = ">" -> <<"g", "t">>
      [] c = "&" -> <<"a", "m", "p">>
      [] c = "\"" -> <<"q", "u", "o", "t">>
      [] c = "'" -> <<"a", "p", "o", "s">>
      [] OTHER -> <<>>
EntityChars == {"<", ">", "&", "\"", "'"}

RECURSIVE encodeHTML(_)
\* encodeHTML(s) of the entities library: each character that has a special
\* meaning in markup becomes its entity.  The library writes other
\* punctuation as entities as well; the strings encoded here hold none.
encodeHTML(s) ==
    IF s = <<>> THEN <<>>
    ELSE (IF Head(s) \in EntityChars THEN <<"&">> \o EntityName(Head(s)) \o <<";">>
          ELSE <<Head(s)>>) \o encodeHTML(Tail(s))

RECURSIVE decodeEntities(_)
\* The text the markup parser makes of character data: each entity becomes
\* its character.
decodeEntities(s) ==
    LET semi == indexOf(s, ";")
        named == {c \in EntityChars : EntityName(c) = substring(s, 1, semi)}
    IN IF s = <<>> THEN <<>>
       ELSE IF Head(s) = "&" /\ semi # -1 /\ named # {}
       THEN <<CHOOSE c \in named : TRUE>> \o decodeEntities(substringFrom(s, semi + 1))
       ELSE <<Head(s)>> \o decodeEntities(Tail(s))

RECURSIVE parseInto(_, _, _)
\* Parses flat markup into parent: <name> opens an element that holds the
\* text up to the next "<", a closing tag is skipped, other text becomes a
\* text node.
parseInto(d, parent, s) ==
    IF s = <<>> THEN d
    ELSE IF Head(s) = "<" /\ indexOf(s, ">") # -1
    THEN LET close == indexOf(s, ">")
             name == substring(s, 1, close)
             rest == substringFrom(s, close + 1)
             upto == IF indexOf(rest, "<") = -1 THEN Len(rest) ELSE indexOf(rest, "<")
             d1 == appendChild(createElement(d, name), parent, NextNode(d))
         IN IF name # <<>> /\ Head(name) = "/" THEN parseInto(d, parent, rest)
            ELSE parseInto(setTextContent(d1, NextNode(d),
                                          decodeEntities(substring(rest, 0, upto))),
                           parent, substringFrom(rest, upto))
    ELSE LET next == indexOf(Tail(s), "<")
             upto == IF next = -1 THEN Len(s) ELSE next + 1
         IN parseInto(appendChild(createTextNode(d, decodeEntities(substring(s, 0, upto))),
                                  parent, NextNode(d)),
                      parent, substringFrom(s, upto))

\* node.innerHTML = s
setInnerHTML(d, n, s) == parseInto([d EXCEPT ![n].childNodes = <<>>], n, s)

\* element.setAttribute(name, value), element.hasAttribute(name),
\* element.getAttribute(name)
setAttribute(d, n, name, value) == [d EXCEPT ![n].attributes = setEntry(@, name, value)]
hasAttribute(d, n, name) == hasEntry(d[n].attributes, name)
getAttribute(d, n, name) == getEntry(d[n].attributes, name)
\* element[name] = value
setProperty(d, n, name, value) == [d EXCEPT ![n].properties = setEntry(@, name, value)]

\* Object.entries(value): the own entries of a plain object; a number, a
\* boolean, a function or a node has none.  Strings and arrays, which have
\* an entry for each index, are not passed where entries are taken.
OwnEntries(h, value) ==
    IF value.k = "object"
    THEN [i \in 1..Len(ObjectKeys(h, value)) |->
            Entry(ObjectKeys(h, value)[i], Get(h, value, ObjectKeys(h, value)[i]))]
    ELSE <<>>

(***************************************************************************)
(* Html: the builders of src/src/index.js.  A builder's outcome is the     *)
(* heap and the document it leaves and the node it returned or the error   *)
(* it threw.  A tag name is the sequence of its characters, an attribute   *)
(* name is a key of the options object.                                    *)
(***************************************************************************)
voidElements ==
    {<<"a", "r", "e", "a">>, <<"b", "a", "s", "e">>, <<"b", "r">>, <<"c", "o", "l">>, <<"c", "o", "m", "m", "a", "n", "d">>, <<"e", "m", "b", "e", "d">>, <<"h", "r">>, <<"i", "m", "g">>,
     <<"i", "n", "p", "u", "t">>, <<"k", "e", "y", "g", "e", "n">>, <<"l", "i", "n", "k">>, <<"m", "e", "t", "a">>, <<"p", "a", "r", "a", "m">>, <<"s", "o", "u", "r", "c", "e">>, <<"t", "r", "a", "c", "k">>, <<"w", "b", "r">>}

booleanAttributes == {"required", "readonly", "disabled", "checked"}

\* name.startsWith('data'), over the attribute names of the model
startsWithData(name) == name \in {"data", "data-role", "dataset"}

HtmlReturned(h, d, value) ==
    [heap |-> h, dom |-> d, thrown |-> NoError, value |-> value, read |-> <<>>]
HtmlThrown(h, d, error) ==
    [heap |-> h, dom |-> d, thrown |-> error, value |-> Undefined, read |-> <<>>]
DomReturned(d) == [dom |-> d, thrown |-> NoError]
DomThrown(d, error) == [dom |-> d, thrown |-> error]

\* A parameter declared as options = {}: a new object when it is undefined.
OrEmptyObject(h, options) ==
    IF options = Undefined THEN [heap |-> NewObject(h), root |-> NewRef(h)]
    ELSE [heap |-> h, root |-> options]

\* element.appendChild(content) for any value
appendChildValue(d, element, content) ==
    IF isNode(content) THEN DomReturned(appendChild(d, element, content.v))
    ELSE DomThrown(d, TypeError("parameter 1 is not of type 'Node'"))

RECURSIVE renderContentItems(_, _, _, _)
\* for (const childElement of content) element.appendChild(childElement):
\* the steps of the iterator from index i - 1 on.  Each step reads the
\* collection anew, so a live NodeList is read as it is at that step.
renderContentItems(d, element, content, i) ==
    LET items == IF content.k = "nodelist" THEN NodeListItems(d, content) ELSE content.v
        appended == appendChildValue(d, element, items[i])
    IN IF i > Len(items) THEN DomReturned(d)
       ELSE IF Failed(appended) THEN appended
       ELSE renderContentItems(appended.dom, element, content, i + 1)

\* renderContent with one fault: "nullIsObject" leaves out the test for
\* null, "innerHTML" parses a string as markup.
renderContentFaulty(fault, d, element, content) ==
    IF isArray(content) \/ content.k = "nodelist"
    THEN renderContentItems(d, element, content, 1)
    ELSE IF typeof(content) = "object" /\ (content # Null \/ fault = "nullIsObject")
    THEN appendChildValue(d, element, content)
    ELSE IF typeof(content) = "string"
    THEN DomReturned(IF fault = "innerHTML" THEN setInnerHTML(d, element, content.v)
                     ELSE setTextContent(d, element, content.v))
    ELSE DomReturned(d)

renderContent_nullIsObject(d, element, content) ==
    renderContentFaulty("nullIsObject", d, element, content)

renderContent_innerHTML(d, element, content) ==
    renderContentFaulty("innerHTML", d, element, content)

\* renderContent(element, content)
renderContent(d, element, content) ==
    IF isArray(content) \/ content.k = "nodelist"
    THEN renderContentItems(d, element, content, 1)
    ELSE IF typeof(content) = "object" /\ content # Null
    THEN appendChildValue(d, element, content)
    ELSE IF typeof(content) = "string"
    THEN DomReturned(setTextContent(d, element, content.v))
    ELSE DomReturned(d)

RECURSIVE assignEntries(_, _)
\* Copies the entries into a list of entries, as strings.
assignEntries(target, entries) ==
    IF entries = <<>> THEN target
    ELSE assignEntries(setEntry(target, Head(entries).name, StringOf(Head(entries).value)),
                       Tail(entries))

\* The callback without the test for false and without the boolean
\* attributes: every value but null is written as an attribute.
setAttributesEntry_textual(h, d, element, name, value) ==
    IF value = Null THEN DomReturned(d)
    ELSE DomReturned(setAttribute(d, element, name, StringOf(value)))

\* The callback setAttributes runs for the entry [name, value].
setAttributesEntry(h, d, element, name, value) ==
    IF value = Null \/ value = Bool(0) THEN DomReturned(d)
    ELSE IF name \in booleanAttributes
    THEN DomReturned(setProperty(d, element, name, JsBool(ToBoolean(value))))
    ELSE IF name = "class" /\ isArray(value)
    THEN DomReturned(setAttribute(d, element, "class", join(value.v, <<" ">>)))
    ELSE IF name = "style" /\ typeof(value) = "object"
    THEN DomReturned([d EXCEPT ![element].style = assignEntries(@, OwnEntries(h, value))])
    ELSE IF startsWithData(name) /\ typeof(value) = "object"
    THEN DomReturned([d EXCEPT ![element].dataset = assignEntries(@, OwnEntries(h, value))])
    ELSE IF value = Undefined
    THEN DomThrown(d, TypeError("Cannot read properties of undefined (reading 'toString')"))
    ELSE DomReturned(setAttribute(d, element, name, toString(value)))

RECURSIVE setAttributesEntries(_, _, _, _, _)
\* Object.entries(attributes).forEach(...) from entry i on
setAttributesEntries(h, d, element, entries, i) ==
    LET set == setAttributesEntry(h, d, element, entries[i].name, entries[i].value)
    IN IF i > Len(entries) THEN DomReturned(d)
       ELSE IF Failed(set) THEN set
       ELSE setAttributesEntries(h, set.dom, element, entries, i + 1)

\* setAttributes(element, attributes = {})
setAttributes(h, d, element, attributes) ==
    IF attributes = Null
    THEN DomThrown(d, TypeError("Cannot convert undefined or null to object"))
    ELSE setAttributesEntries(h, d, element, OwnEntries(h, attributes), 1)

\* The end of tag: the element, unless its content could not be rendered.
tagReturn(h, element, rendered) ==
    IF Failed(rendered) THEN HtmlThrown(h, rendered.dom, rendered.thrown)
    ELSE HtmlReturned(h, rendered.dom, NodeRef(element))

\* tag without the test for a void element, once the attributes are set
tagRender_rendersVoid(h, element, name, content, attributed) ==
    IF Failed(attributed) THEN HtmlThrown(h, attributed.dom, attributed.thrown)
    ELSE tagReturn(h, element, renderContent(attributed.dom, element, content))

\* tag once the attributes are set: the content is rendered into an
\* element that is not void.
tagRender(h, element, name, content, attributed) ==
    IF Failed(attributed) THEN HtmlThrown(h, attributed.dom, attributed.thrown)
    ELSE tagReturn(h, element,
                   IF name \notin voidElements
                   THEN renderContent(attributed.dom, element, content)
                   ELSE attributed)

\* tag on its options object: the element is created and its attributes
\* are set.
tagElement(opts, d, name, content) ==
    tagRender(opts.heap, NextNode(d), name, content,
              setAttributes(opts.heap, createElement(d, name), NextNode(d), opts.root))

\* tag(name, content, options = {})
tag(h, d, name, content, options) ==
    tagElement(OrEmptyObject(h, options), d, name, content)

\* a that sets href to the empty string for a null url
a_emptyHref(h, d, text, url, options) ==
    LET opts == OrEmptyObject(h, options)
    IN tag(Put(opts.heap, opts.root, "href", IF url # Null THEN url ELSE StrEmpty),
           d, <<"a">>, text, opts.root)

\* a(text, url, options = {})
a(h, d, text, url, options) ==
    LET opts == OrEmptyObject(h, options)
    IN IF url # Null
       THEN IF opts.root = Null
            THEN HtmlThrown(opts.heap, d, TypeError("Cannot set properties of null (setting 'href')"))
            ELSE tag(Put(opts.heap, opts.root, "href", url), d, <<"a">>, text, opts.root)
       ELSE tag(opts.heap, d, <<"a">>, text, opts.root)

\* input(type, name, value, options = {}), for an options object
input(h, d, type, name, value, options) ==
    LET opts == OrEmptyObject(h, options)
        h1 == IF ~ToBoolean(Get(opts.heap, opts.root, "type"))
              THEN Put(opts.heap, opts.root, "type", type)
              ELSE opts.heap
        h2 == Put(h1, opts.root, "name", name)
        h3 == Put(h2, opts.root, "value", value)
    IN tag(h3, d, <<"i", "n", "p", "u", "t">>, Null, opts.root)

\* hiddenInput(name, value = null, options = {})
hiddenInput(h, d, name, value, options) ==
    input(h, d, Str(<<"h", "i", "d", "d", "e", "n">>), name, IF value = Undefined THEN Null ELSE value, options)

RECURSIVE putEntries(_, _, _)
\* target[name] = value for each of the entries
putEntries(h, target, entries) ==
    IF entries = <<>> THEN h
    ELSE putEntries(Put(h, target, Head(entries).name, Head(entries).value), target,
                    Tail(entries))

RECURSIVE formHiddenInputs(_, _, _, _, _)
\* hiddenInputs.appendChild(made) for the hidden input a step of the loop
\* made, and the steps after it
formAppendChild(made, hiddenInputs, queryParams, i) ==
    IF Failed(made) THEN made
    ELSE formHiddenInputs(made.heap, appendChild(made.dom, hiddenInputs, made.value.v),
                          hiddenInputs, queryParams, i + 1)

\* hiddenInput(decodeURIComponent(key), decodeURIComponent(value)) for the
\* decoded key and value of pair i
formHiddenInput(h, d, hiddenInputs, queryParams, i, key, value) ==
    IF Failed(key) THEN HtmlThrown(h, d, key.thrown)
    ELSE IF Failed(value) THEN HtmlThrown(h, d, value.thrown)
    ELSE formAppendChild(hiddenInput(h, d, Str(key.out), Str(value.out), Undefined),
                         hiddenInputs, queryParams, i)

\* for (const [key, value] of queryParams) ...: the steps from pair i on
formHiddenInputs(h, d, hiddenInputs, queryParams, i) ==
    IF i > Len(queryParams) THEN HtmlReturned(h, d, Undefined)
    ELSE formHiddenInput(h, d, hiddenInputs, queryParams, i,
                         decodeURIComponent(queryParams[i].name),
                         decodeURIComponent(queryParams[i].value))

\* return tag('form', hiddenInputs, {...options, action, method}), after
\* the loop has left the outcome `filled`
formTag(filled, hiddenInputs, options, action, method) ==
    LET spread == NewRef(filled.heap)
        h1 == putEntries(NewObject(filled.heap), spread, OwnEntries(filled.heap, options))
        h2 == Put(Put(h1, spread, "action", action), spread, "method", method)
    IN IF Failed(filled) THEN filled
       ELSE tag(h2, filled.dom, <<"f", "o", "r", "m">>, NodeRef(hiddenInputs), spread)

\* form(action = '', method = 'post', options = {}), for strings action and
\* method
form(h, d, action, method, options) ==
    LET action0 == IF action = Undefined THEN StrEmpty ELSE action
        method0 == IF method = Undefined THEN Str(<<"p", "o", "s", "t">>) ELSE method
        opts == OrEmptyObject(h, options)
        hiddenInputs == NextNode(d)
        queryParamPos == indexOf(action0.v, "?")
        queryParams == URLSearchParams(substringFrom(action0.v, queryParamPos + 1))
    IN IF toLowerCase(method0.v) = <<"g", "e", "t">> /\ queryParamPos # -1
       THEN formTag(formHiddenInputs(opts.heap, createDocumentFragment(d), hiddenInputs,
                                     queryParams, 1),
                    hiddenInputs, opts.root, Str(substring(action0.v, 0, queryParamPos)),
                    method0)
       ELSE formTag(HtmlReturned(opts.heap, createDocumentFragment(d), Undefined),
                    hiddenInputs, opts.root, action0, method0)

\* if(!options.type) options.type = type
defaultType(h, options, type) ==
    IF ~ToBoolean(Get(h, options, "type")) THEN Put(h, options, "type", type) ELSE h

\* button(content, options = {})
button(h, d, content, options) ==
    LET opts == OrEmptyObject(h, options)
    IN tag(defaultType(opts.heap, opts.root, Str(<<"b", "u", "t", "t", "o", "n">>)), d, <<"b", "u", "t", "t", "o", "n">>, content,
           opts.root)

\* resetButton(content, options = {})
resetButton(h, d, content, options) ==
    LET opts == OrEmptyObject(h, options)
    IN button(Put(opts.heap, opts.root, "type", Str(<<"r", "e", "s", "e", "t">>)), d, content, opts.root)

\* submitButton as the older class has it: the type it sets is 'reset'
submitButton_reset(h, d, content, options) ==
    LET opts == OrEmptyObject(h, options)
    IN button(Put(opts.heap, opts.root, "type", Str(<<"r", "e", "s", "e", "t">>)), d, content, opts.root)

\* submitButton(content, options = {})
submitButton(h, d, content, options) ==
    LET opts == OrEmptyObject(h, options)
    IN button(Put(opts.heap, opts.root, "type", Str(<<"s", "u", "b", "m", "i", "t">>)), d, content, opts.root)

\* a || b
JsOr(x, y) == IF ToBoolean(x) THEN x ELSE y

\* The object literal {...options, e1, e2, ...}: a new object at NewRef(h)
\* with the own entries of options and then the entries.
SpreadObject(h, options, entries) ==
    putEntries(putEntries(NewObject(h), NewRef(h), OwnEntries(h, options)), NewRef(h), entries)

\* The end of booleanInput once the input is made: with options.label the
\* input and a text node of the label go into a new label element, which
\* takes the attributes of options.labelOptions.
booleanInputLabel(made, options) ==
    LET labelEl == NextNode(made.dom)
        textNode == labelEl + 1
        d1 == appendChild(createElement(made.dom, <<"l", "a", "b", "e", "l">>), labelEl, made.value.v)
        d2 == appendChild(createTextNode(d1, StringOf(Get(made.heap, options, "label"))),
                          labelEl, textNode)
        attributed == IF ToBoolean(Get(made.heap, options, "labelOptions"))
                      THEN setAttributes(made.heap, d2, labelEl,
                                         Get(made.heap, options, "labelOptions"))
                      ELSE DomReturned(d2)
    IN IF Failed(made) THEN made
       ELSE IF ~ToBoolean(Get(made.heap, options, "label")) THEN made
       ELSE IF Failed(attributed) THEN HtmlThrown(made.heap, attributed.dom, attributed.thrown)
       ELSE HtmlReturned(made.heap, attributed.dom, NodeRef(labelEl))

\* let element = input(type, name, elementOptions.value, elementOptions),
\* after the hidden input of options.uncheck came out as `hidden`; the
\* hidden input itself is not used.
booleanInputElement(hidden, type, name, elementOptions, options) ==
    IF Failed(hidden) THEN hidden
    ELSE booleanInputLabel(input(hidden.heap, hidden.dom, type, name,
                                 Get(hidden.heap, elementOptions, "value"), elementOptions),
                           options)

\* booleanInput(type, name, checked = false, options = {})
booleanInput(h, d, type, name, checked, options) ==
    LET opts == OrEmptyObject(h, options)
        checked0 == IF checked = Undefined THEN Bool(0) ELSE checked
        elementOptions == NewRef(opts.heap)
        h1 == SpreadObject(opts.heap, opts.root,
                           <<Entry("type", type), Entry("checked", checked0),
                             Entry("name", name),
                             Entry("value", JsOr(Get(opts.heap, opts.root, "value"),
                                                 Str(<<"1">>)))>>)
        hiddenOptions == NewRef(h1)
        h2 == SpreadObject(h1, Undefined,
                           <<Entry("form", Get(opts.heap, opts.root, "form"))>>)
    IN booleanInputElement(
            IF ToBoolean(Get(opts.heap, opts.root, "uncheck"))
            THEN hiddenInput(h2, d, name, Get(opts.heap, opts.root, "uncheck"), hiddenOptions)
            ELSE HtmlReturned(h1, d, Undefined),
            type, name, elementOptions, opts.root)

\* radio(name, checked = false, options = {})
radio(h, d, name, checked, options) ==
    booleanInput(h, d, Str(<<"r", "a", "d", "i", "o">>), name, checked, options)

\* checkbox(name, checked = false, options = {})
checkbox(h, d, name, checked, options) ==
    booleanInput(h, d, Str(<<"c", "h", "e", "c", "k", "b", "o", "x">>), name, checked, options)

\* s.endsWith(suffix)
endsWith(s, suffix) ==
    Len(s) >= Len(suffix) /\ SubSeq(s, Len(s) - Len(suffix) + 1, Len(s)) = suffix

\* The characters of a key of an items object.
KeyString(key) ==
    CASE key = "a" -> <<"a">>
      [] key = "b" -> <<"b">>
      [] key = "null" -> <<"n", "u", "l", "l">>

\* selection.includes(value), new Set(selection).has(value)
includes(items, value) == \E i \in 1..Len(items) : items[i] = value

\* parent.prepend(child) for a node child that is no fragment
prepend(d, parent, child) ==
    [removeFromParent(d, child) EXCEPT ![parent].childNodes = <<child>> \o @]

RECURSIVE renderSelectOptionsEntries(_, _, _, _, _, _, _)
\* Object.entries(items).forEach(([value, text]) => ...) from entry i on
renderSelectOptionsEntries(h, d, fragment, selections, entries, options, i) ==
    LET value == entries[i].name
        optionElement == NextNode(d)
        d1 == setProperty(createElement(d, <<"o", "p", "t", "i", "o", "n">>), optionElement, "value",
                          Str(KeyString(value)))
        d2 == setTextContent(d1, optionElement, StringOf(entries[i].value))
        d3 == IF includes(selections, Str(KeyString(value)))
              THEN setProperty(d2, optionElement, "selected", Bool(1))
              ELSE d2
        attributed == IF ToBoolean(Get(h, options, value))
                      THEN setAttributes(h, d3, optionElement, Get(h, options, value))
                      ELSE DomReturned(d3)
    IN IF i > Len(entries) THEN HtmlReturned(h, d, NodeRef(fragment))
       ELSE IF Failed(attributed) THEN HtmlThrown(h, attributed.dom, attributed.thrown)
       ELSE renderSelectOptionsEntries(h, appendChild(attributed.dom, fragment, optionElement),
                                       fragment, selections, entries, options, i + 1)

\* renderSelectOptions(selection, items, options = {})
renderSelectOptions(h, d, selection, items, options) ==
    LET opts == OrEmptyObject(h, options)
    IN renderSelectOptionsEntries(opts.heap, createDocumentFragment(d), NextNode(d),
                                  IF isArray(selection) THEN selection.v ELSE <<selection>>,
                                  OwnEntries(opts.heap, items), opts.root, 1)

\* fragment.appendChild(made) for the element listBox made last; the
\* fragment is what listBox returns
listBoxAppend(made, fragment) ==
    IF Failed(made) THEN made
    ELSE HtmlReturned(made.heap, appendChild(made.dom, fragment, made.value.v),
                      NodeRef(fragment))

\* tag('select', selectOptions, options) for the rendered options
selectTag(rendered, options) ==
    IF Failed(rendered) THEN rendered
    ELSE tag(rendered.heap, rendered.dom, <<"s", "e", "l", "e", "c", "t">>, rendered.value, options)

\* The end of listBox, after the hidden input came out as `hidden`:
\* the options are rendered and the select element goes into the fragment.
listBoxSelect(hidden, fragment, selection, items, options) ==
    IF Failed(hidden) THEN hidden
    ELSE listBoxAppend(selectTag(renderSelectOptions(hidden.heap, hidden.dom, selection,
                                                     items, Undefined),
                                 options),
                       fragment)

\* fragment.appendChild(hiddenInput(name, options.unselect));
\* delete options.unselect
listBoxUnselect(made, fragment, options) ==
    IF Failed(made) THEN made
    ELSE HtmlReturned(Delete(made.heap, options, "unselect"),
                      appendChild(made.dom, fragment, made.value.v), Undefined)

\* listBox(name, selection = null, items = {}, options = {}), for an items
\* object
listBox(h, d, name, selection, items, options) ==
    LET opts == OrEmptyObject(h, options)
        fragment == NextNode(d)
        h1 == IF ~ToBoolean(Get(opts.heap, opts.root, "size"))
              THEN Put(opts.heap, opts.root, "size", Num(4))
              ELSE opts.heap
        name1 == IF ToBoolean(Get(h1, opts.root, "multiple")) /\ ~endsWith(name.v, <<"[", "]">>)
                 THEN Str(name.v \o <<"[", "]">>)
                 ELSE name
        h2 == Put(h1, opts.root, "name", name1)
    IN listBoxSelect(
            IF ToBoolean(Get(h2, opts.root, "unselect"))
            THEN listBoxUnselect(hiddenInput(h2, createDocumentFragment(d), name1,
                                             Get(h2, opts.root, "unselect"), Undefined),
                                 fragment, opts.root)
            ELSE HtmlReturned(h2, createDocumentFragment(d), Undefined),
            fragment, IF selection = Undefined THEN Null ELSE selection, items, opts.root)

\* select(name, selection = null, items = {}, options = {}), for an items
\* object
select(h, d, name, selection, items, options) ==
    LET opts == OrEmptyObject(h, options)
        selection0 == IF selection = Undefined THEN Null ELSE selection
    IN IF ToBoolean(Get(opts.heap, opts.root, "multiple"))
       THEN listBox(opts.heap, d, name, selection0, items, opts.root)
       ELSE selectTag(renderSelectOptions(Put(opts.heap, opts.root, "name", name), d,
                                          selection0, items, Undefined),
                      opts.root)

\* if (options.separator && index < Object.keys(items).length - 1)
\* fragment.appendChild(document.createTextNode(options.separator)), after
\* entry i of n
listSeparator(h, d, fragment, options, i, n) ==
    IF ToBoolean(Get(h, options, "separator")) /\ i - 1 < n - 1
    THEN appendChild(createTextNode(d, StringOf(Get(h, options, "separator"))), fragment,
                     NextNode(d))
    ELSE d

\* fragment.prepend(made) for the hidden input made; the fragment is what
\* the list returns
listPrepend(made, fragment) ==
    IF Failed(made) THEN made
    ELSE HtmlReturned(made.heap, prepend(made.dom, fragment, made.value.v),
                      NodeRef(fragment))

\* The object literal {value, label, ...options.itemOptions} at NewRef(h)
itemOptionsObject(h, value, label, options) ==
    putEntries(putEntries(NewObject(h), NewRef(h),
                          <<Entry("value", value), Entry("label", label)>>),
               NewRef(h), OwnEntries(h, Get(h, options, "itemOptions")))

RECURSIVE checkboxListEntries(_, _, _, _, _, _, _, _)
\* fragment.appendChild(checkboxEl) and the separator, for the checkbox a
\* step of the loop made, and the steps after it
checkboxListAppend(made, fragment, name, selection, entries, options, i) ==
    IF Failed(made) THEN made
    ELSE checkboxListEntries(made.heap,
                             listSeparator(made.heap,
                                           appendChild(made.dom, fragment, made.value.v),
                                           fragment, options, i, Len(entries)),
                             fragment, name, selection, entries, options, i + 1)

\* Object.entries(items).forEach(([value, label], index) => ...) of
\* checkboxList from entry i on; selection is null or an array
checkboxListEntries(h, d, fragment, name, selection, entries, options, i) ==
    IF i > Len(entries) THEN HtmlReturned(h, d, Undefined)
    ELSE checkboxListAppend(
            checkbox(itemOptionsObject(h, Str(KeyString(entries[i].name)), entries[i].value,
                                       options),
                     d, name,
                     IF selection = Null THEN Null
                     ELSE JsBool(includes(selection.v, Str(KeyString(entries[i].name)))),
                     NewRef(h)),
            fragment, name, selection, entries, options, i)

\* if (options.unselect !== undefined)
\* fragment.prepend(hiddenInput(name, options.unselect)); return fragment
checkboxListUnselect(filled, fragment, name, options) ==
    IF Failed(filled) THEN filled
    ELSE IF Get(filled.heap, options, "unselect") # Undefined
    THEN listPrepend(hiddenInput(filled.heap, filled.dom, name,
                                 Get(filled.heap, options, "unselect"), Undefined),
                     fragment)
    ELSE HtmlReturned(filled.heap, filled.dom, NodeRef(fragment))

\* checkboxList(name, selection = null, items = {}, options = {}), for an
\* items object
checkboxList(h, d, name, selection, items, options) ==
    LET opts == OrEmptyObject(h, options)
        selection0 == IF selection = Undefined \/ selection = Null THEN Null
                      ELSE IF isArray(selection) THEN selection
                      ELSE ArrayOf(<<selection>>)
    IN checkboxListUnselect(
            checkboxListEntries(opts.heap, createDocumentFragment(d), NextNode(d), name,
                                selection0, OwnEntries(opts.heap, items), opts.root, 1),
            NextNode(d), name, opts.root)

RECURSIVE radioListEntries(_, _, _, _, _, _, _, _)
\* fragment.appendChild(radioElement) and the separator, for the radio a
\* step of the loop made, and the steps after it
radioListAppend(made, fragment, name, selectedValue, entries, options, i) ==
    IF Failed(made) THEN made
    ELSE radioListEntries(made.heap,
                          listSeparator(made.heap,
                                        appendChild(made.dom, fragment, made.value.v),
                                        fragment, options, i, Len(entries)),
                          fragment, name, selectedValue, entries, options, i + 1)

\* Object.entries(items).forEach(([value, label], index) => ...) of
\* radioList from entry i on, for labels that are strings
radioListEntries(h, d, fragment, name, selectedValue, entries, options, i) ==
    IF i > Len(entries) THEN HtmlReturned(h, d, Undefined)
    ELSE radioListAppend(
            radio(itemOptionsObject(h, Str(KeyString(entries[i].name)),
                                    IF Get(h, options, "encode") # Bool(0)
                                    THEN Str(encodeHTML(entries[i].value.v))
                                    ELSE entries[i].value,
                                    options),
                  d, name, JsBool(KeyString(entries[i].name) = selectedValue), NewRef(h)),
            fragment, name, selectedValue, entries, options, i)

\* if (options.unselect) fragment.prepend(hiddenInput(name,
\* options.unselect)); return fragment
radioListUnselect(filled, fragment, name, options) ==
    IF Failed(filled) THEN filled
    ELSE IF ToBoolean(Get(filled.heap, options, "unselect"))
    THEN listPrepend(hiddenInput(filled.heap, filled.dom, name,
                                 Get(filled.heap, options, "unselect"), Undefined),
                     fragment)
    ELSE HtmlReturned(filled.heap, filled.dom, NodeRef(fragment))

\* radioList(name, selection = null, items = {}, options = {}), for an
\* items object
radioList(h, d, name, selection, items, options) ==
    LET opts == OrEmptyObject(h, options)
        selectedValue == StringOf(IF selection = Undefined THEN Null ELSE selection)
    IN radioListUnselect(
            radioListEntries(opts.heap, createDocumentFragment(d), NextNode(d), name,
                             selectedValue, OwnEntries(opts.heap, items), opts.root, 1),
            NextNode(d), name, opts.root)

RECURSIVE ulItems(_, _, _, _, _)
\* items.forEach((item, index) => ...) of ul from item i on: a string is
\* encoded and parsed into the li, an element is appended to it, any other
\* value is written as text
ulItems(d, fragment, items, encode, i) ==
    LET item == items[i]
        li == NextNode(d)
        d0 == createElement(d, <<"l", "i">>)
        d1 == IF typeof(item) = "string" /\ encode
              THEN setInnerHTML(d0, li, encodeHTML(item.v))
              ELSE IF isNode(item) /\ d[item.v].nodeType = "element"
              THEN appendChild(d0, li, item.v)
              ELSE setTextContent(d0, li, toString(item))
    IN IF i > Len(items) THEN DomReturned(d)
       ELSE IF item = Null \/ item = Undefined
       THEN DomThrown(d0, TypeError("Cannot read properties of null (reading 'toString')"))
       ELSE ulItems(appendChild(d1, fragment, li), fragment, items, encode, i + 1)

\* return tag(tagOption, fragment, options), after the loop has left the
\* outcome `filled`
ulTag(h, filled, fragment, options) ==
    IF Failed(filled) THEN HtmlThrown(h, filled.dom, filled.thrown)
    ELSE tag(h, filled.dom, JsOr(Get(h, options, "tag"), Str(<<"u", "l">>)).v, NodeRef(fragment),
             options)

\* ul(items, options = {}), for an array of items
ul(h, d, items, options) ==
    LET opts == OrEmptyObject(h, options)
    IN ulTag(opts.heap,
             ulItems(createDocumentFragment(d), NextNode(d), items.v,
                     Get(opts.heap, opts.root, "encode") # Bool(0), 1),
             NextNode(d), opts.root)

\* ol without the assignment of options.tag
ol_unordered(h, d, items, options) == ul(h, d, items, options)

\* ol(items, options = {})
ol(h, d, items, options) ==
    LET opts == OrEmptyObject(h, options)
    IN ul(Put(opts.heap, opts.root, "tag", Str(<<"o", "l">>)), d, items, opts.root)

RECURSIVE withoutDuplicates(_)
\* The tokens in their order, each one once.
withoutDuplicates(tokens) ==
    IF tokens = <<>> THEN <<>>
    ELSE LET front == withoutDuplicates(SubSeq(tokens, 1, Len(tokens) - 1))
         IN IF \E i \in 1..Len(front) : front[i] = tokens[Len(tokens)] THEN front
            ELSE Append(front, tokens[Len(tokens)])

\* element.classList: the tokens of the class attribute, split at spaces
classList(d, n) ==
    IF hasAttribute(d, n, "class")
    THEN withoutDuplicates(SelectSeq(split(getAttribute(d, n, "class"), " "),
                                     LAMBDA token : token # <<>>))
    ELSE <<>>

RECURSIVE joinTokens(_)
\* The tokens with one space between them.
joinTokens(tokens) ==
    IF tokens = <<>> THEN <<>>
    ELSE IF Len(tokens) = 1 THEN tokens[1]
    ELSE tokens[1] \o <<" ">> \o joinTokens(Tail(tokens))

\* The class attribute is written from the tokens; an element that has no
\* class attribute and is left with no token gets none.
updateClassList(d, n, tokens) ==
    IF tokens = <<>> /\ ~hasAttribute(d, n, "class") THEN d
    ELSE setAttribute(d, n, "class", joinTokens(tokens))

\* ...classList: the characters of a string, the items of an array
spread(value) ==
    IF value.k = "string" THEN [i \in 1..Len(value.v) |-> <<value.v[i]>>]
    ELSE [i \in 1..Len(value.v) |-> StringOf(value.v[i])]

\* The error a token list raises for its arguments: an empty token, or a
\* token that holds a space.
tokenError(tokens) ==
    IF \E i \in 1..Len(tokens) : tokens[i] = <<>>
    THEN [name |-> "SyntaxError", message |-> "The token provided must not be empty."]
    ELSE IF \E i \in 1..Len(tokens) : indexOf(tokens[i], " ") # -1
    THEN [name |-> "InvalidCharacterError",
          message |-> "The token provided contains HTML space characters"]
    ELSE NoError

\* addClass(element, classList), for a string or an array
addClass(d, element, names) ==
    IF tokenError(spread(names)) # NoError THEN DomThrown(d, tokenError(spread(names)))
    ELSE DomReturned(updateClassList(d, element,
                                     withoutDuplicates(classList(d, element) \o spread(names))))

\* removeClass(element, classList), for a string or an array
removeClass(d, element, names) ==
    IF tokenError(spread(names)) # NoError THEN DomThrown(d, tokenError(spread(names)))
    ELSE DomReturned(updateClassList(d, element,
                                     SelectSeq(classList(d, element),
                                               LAMBDA token : ~includes(spread(names), token))))

\* img(src, options = {})
img(h, d, src, options) ==
    LET opts == OrEmptyObject(h, options)
    IN tag(Put(opts.heap, opts.root, "src", src), d, <<"i", "m", "g">>, Null, opts.root)

\* label(content, target = null, options = {})
label(h, d, content, target, options) ==
    LET opts == OrEmptyObject(h, options)
    IN tag(IF ToBoolean(target) THEN Put(opts.heap, opts.root, "for", target) ELSE opts.heap,
           d, <<"l", "a", "b", "e", "l">>, content, opts.root)

(***************************************************************************)
(* The caller's inputs.  An object literal is a chain of levels: at each   *)
(* level key "a" is absent, holds a leaf or (on every level but the last)  *)
(* holds the next level's object, and key "b" is absent or holds a number. *)
(* The leaves of the literal with mark n are Num(n) and Arr(n), so that the *)
(* values of the target and of each source can be told apart.              *)
(***************************************************************************)
Level(aKinds, bKinds) == [a : aKinds, b : bKinds]

ChainsOfLen(n, aLeaves) ==
    {c \in [1..n -> Level(aLeaves \cup {"absent", "nest"}, {"absent", "number"})] :
        \A i \in 1..n : (c[i].a = "nest") <=> (i < n)}

Chains(d, aLeaves) == UNION {ChainsOfLen(n, aLeaves) : n \in 1..(d + 1)}

LeafOf(kind, mark) ==
    CASE kind = "number" -> Num(mark)
      [] kind = "null" -> Null
      [] kind = "array" -> Arr(mark)
      [] kind = "string" -> StrS
      [] kind = "true" -> Bool(1)
      [] kind = "undefined" -> Undefined
      [] kind = "zero" -> Num(0)
      [] kind = "empty" -> StrEmpty

RECURSIVE Build(_, _, _, _)
\* Allocates level i of the chain (and the levels below it) on heap h.
Build(h, chain, i, mark) ==
    LET me == NewRef(h)
        h1 == NewObject(h)
        atA == chain[i].a
        atB == chain[i].b
        sub == Build(h1, chain, i + 1, mark)
        h2 == CASE atA = "absent" -> h1
                [] atA = "nest" -> Put(sub.heap, me, "a", sub.root)
                [] OTHER -> Put(h1, me, "a", LeafOf(atA, mark))
        h3 == IF atB = "absent" THEN h2 ELSE Put(h2, me, "b", LeafOf(atB, mark))
    IN [heap |-> h3, root |-> me]

\* Values that are not mappings.
NonMappings == {Null, Undefined, Num(7), StrS, Bool(1), Arr(9), Fn(1)}

TargetLeaves == {"number", "null", "array", "string", "true"}
SourceLeaves == {"number", "null", "array"}

\* An argument the caller passes: an object literal or a plain value.
Literal(chain) == [chain |-> chain, value |-> Undefined]
Plain(value) == [chain |-> <<>>, value |-> value]
Literals(d, aLeaves) == {Literal(c) : c \in Chains(d, aLeaves)}
Plains(values) == {Plain(v) : v \in values}

\* Evaluates an argument on heap h; the leaves of a literal carry the mark.
Arg(h, given, mark) ==
    IF given.chain = <<>> THEN [heap |-> h, root |-> given.value]
    ELSE Build(h, given.chain, 1, mark)

RECURSIVE Args(_, _, _)
\* Evaluates the arguments inputs[i], inputs[i+1], ... from left to right.
Args(h, inputs, i) ==
    IF i > Len(inputs) THEN [heap |-> h, args |-> <<>>]
    ELSE LET first == Arg(h, inputs[i], i)
             rest == Args(first.heap, inputs, i + 1)
         IN [heap |-> rest.heap, args |-> <<first.root>> \o rest.args]

\* merge(target, source) on two literals of depth up to MaxDepth
InitMergeTwo ==
    \E t \in Literals(MaxDepth, TargetLeaves), s \in Literals(MaxDepth, SourceLeaves) :
        LET built == Args(<<>>, <<t, s>>, 1)
        IN /\ heap = built.heap
           /\ call = [op |-> "merge", args |-> built.args, property |-> ""]

\* merge(target, ...sources) with zero to MaxSources sources
InitMergeMany ==
    \E t \in Literals(1, {"number"}) \cup Plains(NonMappings), n \in 0..MaxSources :
        \E srcs \in [1..n -> Literals(1, {"number"}) \cup Plains(NonMappings)] :
            LET built == Args(<<>>, <<t>> \o srcs, 1)
            IN /\ heap = built.heap
               /\ call = [op |-> "merge", args |-> built.args, property |-> ""]

RemoveLeaves == {"number", "null", "array", "undefined", "zero", "empty"}
Properties == {"a", "b", "c"}
Defaults == {Undefined, Null, StrDefault}

\* remove(target, property) and remove(target, property, defaultValue)
InitRemove ==
    \E t \in Literals(1, RemoveLeaves) \cup Plains(NonMappings),
       property \in Properties,
       rest \in {<<>>} \cup {<<Plain(d)>> : d \in Defaults} :
            LET built == Args(<<>>, <<t>> \o rest, 1)
            IN /\ heap = built.heap
               /\ call = [op |-> "remove", args |-> built.args, property |-> property]

\* Falsy values that are not in NonMappings.
FalsyPlains == {Num(0), StrEmpty, Bool(0)}

\* isObject(item)
InitIsObject ==
    \E item \in Literals(1, {"number"}) \cup Plains(NonMappings \cup FalsyPlains) :
        LET built == Args(<<>>, <<item>>, 1)
        IN /\ heap = built.heap
           /\ call = [op |-> "isObject", args |-> built.args, property |-> ""]

Init ==
    /\ InitMergeTwo \/ InitMergeMany \/ InitRemove \/ InitIsObject
    /\ heap0 = heap
    /\ dom = <<>>
    /\ dom0 = dom
    /\ pc = "ready"
    /\ ret = NoOutcome

MergeCall ==
    /\ pc = "ready"
    /\ call.op = "merge"
    /\ LET r == merge(heap, Head(call.args), Tail(call.args))
       IN /\ heap' = r.heap
          /\ ret' = Outcome(r)
    /\ pc' = "done"
    /\ UNCHANGED <<heap0, dom, dom0, call>>

RemoveCall ==
    /\ pc = "ready"
    /\ call.op = "remove"
    /\ LET r == remove(heap, Head(call.args), call.property, Tail(call.args))
       IN /\ heap' = r.heap
          /\ ret' = Outcome(r)
    /\ pc' = "done"
    /\ UNCHANGED <<heap0, dom, dom0, call>>

IsObjectCall ==
    /\ pc = "ready"
    /\ call.op = "isObject"
    /\ ret' = [NoOutcome EXCEPT !.value = isObjectResult(Head(call.args))]
    /\ pc' = "done"
    /\ UNCHANGED <<heap, heap0, dom, dom0, call>>

Next == MergeCall \/ RemoveCall \/ IsObjectCall

Spec == Init /\ [][Next]_vars

(***************************************************************************)
(* The Html builders: the caller's inputs.                                 *)
(***************************************************************************)
\* Most nodes in a collection handed to a builder.
MaxNodes == 3
\* Most entries of an attributes object handed to setAttributes.
MaxAttributes == 2

StrX == Str(<<"x">>)
StrMarkup == Str(<<"<", "b", ">", "x", "<", "/", "b", ">">>)
StrScript == Str(<<"<", "s", "c", "r", "i", "p", "t", ">">>)

\* Content that is no node and no collection of nodes.
ContentValues == {Null, Undefined, Num(7), Bool(1), StrEmpty, StrX, StrMarkup, StrScript}

\* Content the caller passes: a value, one node, or n nodes in an array, in
\* a fragment, or under a parsed body whose live childNodes is passed.
ContentInputs ==
    {[kind |-> "value", n |-> 0, value |-> v] : v \in ContentValues}
        \cup {[kind |-> "node", n |-> 1, value |-> Undefined]}
        \cup {[kind |-> k, n |-> n, value |-> Undefined] :
                k \in {"array", "fragment", "nodelist"}, n \in 0..MaxNodes}

\* The places of the n nodes made in document d after `before` other nodes.
NewNodes(d, before, n) == [i \in 1..n |-> Len(d) + before + i]
SomeNodes(n) == [i \in 1..n |-> Element(<<"i">>)]

\* Makes the content in document d.
MakeContent(d, c) ==
    CASE c.kind = "value" -> [dom |-> d, value |-> c.value]
      [] c.kind = "node" -> [dom |-> d \o SomeNodes(1), value |-> NodeRef(NextNode(d))]
      [] c.kind = "array" ->
            [dom |-> d \o SomeNodes(c.n),
             value |-> ArrayOf([i \in 1..c.n |-> NodeRef(NewNodes(d, 0, c.n)[i])])]
      [] c.kind = "fragment" ->
            [dom |-> d \o <<[DocumentFragment EXCEPT !.childNodes = NewNodes(d, 1, c.n)]>>
                       \o SomeNodes(c.n),
             value |-> NodeRef(NextNode(d))]
      [] c.kind = "nodelist" ->
            [dom |-> d \o <<[Element(<<"b", "o", "d", "y">>) EXCEPT !.childNodes = NewNodes(d, 1, c.n)]>>
                       \o SomeNodes(c.n),
             value |-> NodeList(NextNode(d))]

\* An options argument: left out, or an object literal with the entries.
Omitted == [given |-> FALSE, entries |-> <<>>]
ObjectOf(entries) == [given |-> TRUE, entries |-> entries]
MakeOptions(h, o) ==
    IF o.given THEN [heap |-> putEntries(NewObject(h), NewRef(h), o.entries), root |-> NewRef(h)]
    ELSE [heap |-> h, root |-> Undefined]

\* renderContent(element, content) on a div with no child or one text child
InitRenderContent ==
    \E c \in ContentInputs, had \in 0..1 :
        LET div == [Element(<<"d", "i", "v">>) EXCEPT !.childNodes = [i \in 1..had |-> 2]]
            made == MakeContent(<<div>> \o [i \in 1..had |-> TextNode(<<"o", "l", "d">>)], c)
        IN /\ heap = <<>>
           /\ dom = made.dom
           /\ call = [op |-> "renderContent", args |-> <<NodeRef(1), made.value>>,
                      property |-> ""]

TagNames == voidElements \cup {<<"d", "i", "v">>, <<"s", "p", "a", "n">>, <<"t", "d">>}
TagOptions ==
    {Omitted, ObjectOf(<<>>), ObjectOf(<<Entry("id", StrS), Entry("title", StrX)>>)}

\* tag(name), tag(name, content) and tag(name, content, options)
InitTag ==
    \E name \in TagNames, c \in ContentInputs, o \in TagOptions :
        LET made == MakeContent(<<>>, c)
            opts == MakeOptions(<<>>, o)
        IN /\ heap = opts.heap
           /\ dom = made.dom
           /\ call = [op |-> "tag", args |-> <<Str(name), made.value, opts.root>>,
                      property |-> ""]

Urls == {Null, Undefined, StrEmpty, Str(<<"/", "u">>)}
AnchorOptions ==
    {Omitted, ObjectOf(<<>>), ObjectOf(<<Entry("class", StrS)>>),
     ObjectOf(<<Entry("href", Str(<<"/", "h">>))>>)}

\* a(text), a(text, url) and a(text, url, options)
InitA ==
    \E text \in {StrEmpty, StrX, StrMarkup}, url \in Urls, o \in AnchorOptions :
        LET opts == MakeOptions(<<>>, o)
        IN /\ heap = opts.heap
           /\ dom = <<>>
           /\ call = [op |-> "a", args |-> <<text, url, opts.root>>, property |-> ""]

Actions ==
    {Undefined, StrEmpty, Str(<<"/", "s">>), Str(<<"/", "s", "?">>), Str(<<"/", "s", "?", "q", "=", "t", "&", "p", "=", "1">>), Str(<<"/", "s", "?", "k">>),
     Str(<<"/", "s", "?", "k", "&", "q", "=", "t">>), Str(<<"/", "s", "?", "q", "=", "a", "%", "2", "0", "b">>), Str(<<"/", "s", "?", "p", "=", "1", "0", "0", "%", "2", "5">>), Str(<<"/", "s", "?", "q", "=", "%", "2", "5", "4", "1">>),
     Str(<<"/", "s", "?", "a", "%", "2", "6", "b", "=", "c", "%", "3", "D", "d">>), Str(<<"/", "s", "?", "q", "=", "t", "?", "u">>)}
Methods == {Undefined, Str(<<"g", "e", "t">>), Str(<<"G", "E", "T">>), Str(<<"G", "e", "t">>), Str(<<"p", "o", "s", "t">>), Str(<<"P", "O", "S", "T">>)}
FormOptions == {Omitted, ObjectOf(<<Entry("id", StrS)>>)}

\* form(), form(action), form(action, method) and form(action, method, options)
InitForm ==
    \E action \in Actions, method \in Methods, o \in FormOptions :
        LET opts == MakeOptions(<<>>, o)
        IN /\ heap = opts.heap
           /\ dom = <<>>
           /\ call = [op |-> "form", args |-> <<action, method, opts.root>>, property |-> ""]

AttributeNames == {"title", "class", "value", "required", "readonly", "disabled", "checked"}
AttributeValues == {Null, Bool(0), Bool(1), StrEmpty, StrS}
\* Attribute objects with 0 to MaxAttributes entries of distinct names.
AttributeInputs ==
    UNION {{ObjectOf([i \in 1..n |-> Entry(names[i], values[i])]) :
                names \in {f \in [1..n -> AttributeNames] :
                              \A i, j \in 1..n : i # j => f[i] # f[j]},
                values \in [1..n -> AttributeValues]} : n \in 0..MaxAttributes}

\* setAttributes(element, attributes) on a new input element
InitSetAttributes ==
    \E o \in AttributeInputs \cup {Omitted} :
        LET opts == MakeOptions(<<>>, o)
        IN /\ heap = opts.heap
           /\ dom = <<Element(<<"i", "n", "p", "u", "t">>)>>
           /\ call = [op |-> "setAttributes", args |-> <<NodeRef(1), opts.root>>,
                      property |-> ""]

\* setAttributes(element, {[name]: value}) for a value that is an array of
\* strings, the object {color: 's'}, a number or undefined
InitSetAttributesObject ==
    \E name \in {"class", "style", "data-role", "title", "required"},
       value \in {ArrayOf(<<StrS, StrX>>), Ref(1), Num(7), Undefined} :
        LET color == putEntries(NewObject(<<>>), Ref(1), <<Entry("color", StrS)>>)
            opts == MakeOptions(color, ObjectOf(<<Entry(name, value)>>))
        IN /\ heap = opts.heap
           /\ dom = <<Element(<<"i", "n", "p", "u", "t">>)>>
           /\ call = [op |-> "setAttributes", args |-> <<NodeRef(1), opts.root>>,
                      property |-> ""]

ButtonTypes == {StrEmpty, Str(<<"s", "u", "b", "m", "i", "t">>), Str(<<"m", "e", "n", "u">>)}
ButtonOptions ==
    {Omitted, ObjectOf(<<>>), ObjectOf(<<Entry("id", StrS)>>)}
        \cup {ObjectOf(<<Entry("type", t)>>) : t \in ButtonTypes}

\* button(content), button(content, options) and the same for resetButton
\* and submitButton
InitButton ==
    \E op \in {"button", "resetButton", "submitButton"},
       c \in {x \in ContentInputs : x.kind = "node" \/ x.value \in {Null, StrX}},
       o \in ButtonOptions :
        LET made == MakeContent(<<>>, c)
            opts == MakeOptions(<<>>, o)
        IN /\ heap = opts.heap
           /\ dom = made.dom
           /\ call = [op |-> op, args |-> <<made.value, opts.root>>, property |-> ""]

StrName == Str(<<"a", "g", "r", "e", "e">>)
\* The sequences that keep, in their order, some of the entries.
RECURSIVE SubEntries(_)
SubEntries(entries) ==
    IF entries = <<>> THEN {<<>>}
    ELSE LET rest == SubEntries(Tail(entries))
         IN rest \cup {<<Head(entries)>> \o s : s \in rest}
\* Options of a checkbox or radio: a label (plain, or with markup), a value,
\* the value to submit when unchecked, and the form the input belongs to.
BooleanOptions ==
    {Omitted}
        \cup {ObjectOf(l \o s) :
                l \in {<<>>, <<Entry("label", Str(<<"A", "c", "c", "e", "p", "t">>))>>, <<Entry("label", StrMarkup)>>},
                s \in SubEntries(<<Entry("value", Str(<<"7">>)), Entry("uncheck", Str(<<"0">>)),
                                   Entry("form", Str(<<"f">>))>>)}
        \cup {ObjectOf(<<Entry("label", Str(<<"A", "c", "c", "e", "p", "t">>)), Entry("labelOptions", Ref(1))>>)}

\* booleanInput(type, name, checked, options), checkbox(name, checked,
\* options) and radio(name, checked, options); labelOptions is {class: 's'}
InitBooleanInput ==
    \E op \in {"booleanInput", "checkbox", "radio"},
       checked \in {Undefined, Bool(0), Bool(1)}, o \in BooleanOptions :
        LET class == putEntries(NewObject(<<>>), Ref(1), <<Entry("class", StrS)>>)
            opts == MakeOptions(class, o)
        IN /\ heap = opts.heap
           /\ dom = <<>>
           /\ call = [op |-> op,
                      args |-> IF op = "booleanInput"
                               THEN <<Str(<<"c", "h", "e", "c", "k", "b", "o", "x">>), StrName, checked, opts.root>>
                               ELSE <<StrName, checked, opts.root>>,
                      property |-> ""]

StrA == Str(<<"a">>)
StrB == Str(<<"b">>)
\* Items objects: the keys are the values, the values are the texts.
ItemEntries ==
    {<<>>, <<Entry("a", Str(<<"A">>))>>, <<Entry("a", Str(<<"A">>)), Entry("b", Str(<<"<", "i", ">">>))>>,
     <<Entry("null", Str(<<"N", "o", "n", "e">>)), Entry("a", Str(<<"A">>))>>}
\* A selection: none, one value, or an array of values.
Selections == {Plain(Null), Plain(StrA), Plain(ArrayOf(<<StrA, StrB>>)), Plain(ArrayOf(<<>>))}
SelectOptions ==
    {Omitted}
        \cup {ObjectOf(s) : s \in SubEntries(<<Entry("multiple", Bool(1)), Entry("size", Num(2)),
                                               Entry("unselect", Str(<<"0">>))>>)}

\* select(name, selection, items, options) and listBox(name, selection,
\* items, options); the items object is made first
InitSelect ==
    \E op \in {"select", "listBox"}, name \in {Str(<<"t", "a", "g", "s">>), Str(<<"t", "a", "g", "s", "[", "]">>)},
       selection \in Selections, items \in ItemEntries, o \in SelectOptions :
        LET opts == MakeOptions(putEntries(NewObject(<<>>), Ref(1), items), o)
        IN /\ heap = opts.heap
           /\ dom = <<>>
           /\ call = [op |-> op, args |-> <<name, selection.value, Ref(1), opts.root>>,
                      property |-> ""]

\* renderSelectOptions(selection, items) and renderSelectOptions(selection,
\* items, {a: {class: 's'}})
InitRenderSelectOptions ==
    \E selection \in Selections, items \in ItemEntries,
       o \in {Omitted, ObjectOf(<<Entry("a", Ref(2))>>)} :
        LET class == putEntries(NewObject(putEntries(NewObject(<<>>), Ref(1), items)), Ref(2),
                                <<Entry("class", StrS)>>)
            opts == MakeOptions(class, o)
        IN /\ heap = opts.heap
           /\ dom = <<>>
           /\ call = [op |-> "renderSelectOptions",
                      args |-> <<selection.value, Ref(1), opts.root>>, property |-> ""]

StrSeparator == Str(<<",", " ">>)
ListOptions ==
    {Omitted}
        \cup {ObjectOf(s) : s \in SubEntries(<<Entry("separator", StrSeparator),
                                               Entry("unselect", Str(<<"0">>))>>)}
        \cup {ObjectOf(<<Entry("encode", Bool(0))>>),
              ObjectOf(<<Entry("separator", StrSeparator), Entry("itemOptions", Ref(2))>>)}

\* checkboxList(name, selection, items, options) and radioList(name,
\* selection, items, options); itemOptions is {class: 's'}
InitCheckboxList ==
    \E op \in {"checkboxList", "radioList"}, selection \in Selections, items \in ItemEntries,
       o \in ListOptions :
        LET class == putEntries(NewObject(putEntries(NewObject(<<>>), Ref(1), items)), Ref(2),
                                <<Entry("class", StrS)>>)
            opts == MakeOptions(class, o)
        IN /\ heap = opts.heap
           /\ dom = <<>>
           /\ call = [op |-> op, args |-> <<StrName, selection.value, Ref(1), opts.root>>,
                      property |-> ""]

\* The items of a list: strings, an element, a number.
ItemArrays ==
    {Plain(ArrayOf(<<>>)), Plain(ArrayOf(<<StrX>>)), Plain(ArrayOf(<<StrX, Str(<<"<", "i", ">">>)>>)),
     Plain(ArrayOf(<<NodeRef(1)>>)), Plain(ArrayOf(<<StrX, NodeRef(1), Num(7)>>))}
UlOptions ==
    {Omitted, ObjectOf(<<>>), ObjectOf(<<Entry("separator", StrSeparator)>>),
     ObjectOf(<<Entry("encode", Bool(0))>>), ObjectOf(<<Entry("id", StrS)>>)}

\* ul(items), ul(items, options), ol(items) and ol(items, options); node 1
\* is an element the caller made
InitUl ==
    \E op \in {"ul", "ol"}, items \in ItemArrays, o \in UlOptions :
        LET opts == MakeOptions(<<>>, o)
        IN /\ heap = opts.heap
           /\ dom = SomeNodes(1)
           /\ call = [op |-> op, args |-> <<items.value, opts.root>>, property |-> ""]

\* Class names: one of several characters, as the tests pass them, and of
\* one character.
ClassNames == {Str(<<"t", "e", "s", "t", "-", "c", "l", "a", "s", "s">>), Str(<<"e", "x", "i", "s", "t", "i", "n", "g">>), Str(<<"c", "l", "a", "s", "s", "1">>), Str(<<"c", "l", "a", "s", "s", "2">>), StrX}
ClassArguments ==
    {Plain(name) : name \in ClassNames}
        \cup {Plain(ArrayOf(<<Str(<<"c", "l", "a", "s", "s", "1">>)>>)), Plain(ArrayOf(<<StrX, Str(<<"e", "x", "i", "s", "t", "i", "n", "g">>)>>))}

\* addClass(div, name) and removeClass(div, name) on a div with no class,
\* one class or two
InitClass ==
    \E op \in {"addClass", "removeClass"}, names \in ClassArguments,
       had \in {<<>>, <<Entry("class", <<"e", "x", "i", "s", "t", "i", "n", "g">>)>>, <<Entry("class", <<"c", "l", "a", "s", "s", "1", " ", "c", "l", "a", "s", "s", "2">>)>>,
                <<Entry("class", <<"x">>)>>} :
        /\ heap = <<>>
        /\ dom = <<[Element(<<"d", "i", "v">>) EXCEPT !.attributes = had]>>
        /\ call = [op |-> op, args |-> <<NodeRef(1), names.value>>, property |-> ""]

\* Options that hold keys of the caller and keys the builders write.
MixedOptions ==
    {Omitted, ObjectOf(<<Entry("id", StrS)>>),
     ObjectOf(<<Entry("id", StrS), Entry("src", Str(<<"/", "o">>)), Entry("for", Str(<<"o">>)),
                Entry("type", Str(<<"t", "e", "x", "t">>))>>)}

\* img(src, options)
InitImg ==
    \E src \in {StrEmpty, Str(<<"/", "p">>)}, o \in MixedOptions :
        LET opts == MakeOptions(<<>>, o)
        IN /\ heap = opts.heap
           /\ dom = <<>>
           /\ call = [op |-> "img", args |-> <<src, opts.root>>, property |-> ""]

\* label(content), label(content, target) and label(content, target,
\* options)
InitLabel ==
    \E content \in {StrEmpty, StrX}, target \in {Undefined, Null, Str(<<"f">>)},
       o \in MixedOptions :
        LET opts == MakeOptions(<<>>, o)
        IN /\ heap = opts.heap
           /\ dom = <<>>
           /\ call = [op |-> "label",
                      args |-> <<content, IF target = Undefined THEN Null ELSE target,
                                 opts.root>>,
                      property |-> ""]

\* input(type, name, value, options)
InitInput ==
    \E type \in {Str(<<"t", "e", "x", "t">>), Str(<<"e", "m", "a", "i", "l">>)}, value \in {StrEmpty, StrX},
       o \in MixedOptions :
        LET opts == MakeOptions(<<>>, o)
        IN /\ heap = opts.heap
           /\ dom = <<>>
           /\ call = [op |-> "input", args |-> <<type, StrName, value, opts.root>>,
                      property |-> ""]

\* The call ends with the outcome r of a builder.
HtmlOutcome(r) ==
    /\ heap' = r.heap
    /\ dom' = r.dom
    /\ ret' = Outcome(r)

HtmlInit ==
    /\ \/ InitRenderContent
       \/ InitTag
       \/ InitA
       \/ InitForm
       \/ InitSetAttributes
       \/ InitSetAttributesObject
       \/ InitButton
       \/ InitBooleanInput
       \/ InitSelect
       \/ InitRenderSelectOptions
       \/ InitCheckboxList
       \/ InitUl
       \/ InitClass
       \/ InitImg
       \/ InitLabel
       \/ InitInput
    /\ heap0 = heap
    /\ dom0 = dom
    /\ pc = "ready"
    /\ ret = NoOutcome

RenderContentCall ==
    /\ pc = "ready"
    /\ call.op = "renderContent"
    /\ LET r == renderContent(dom, call.args[1].v, call.args[2])
       IN /\ dom' = r.dom
          /\ ret' = [NoOutcome EXCEPT !.thrown = r.thrown]
    /\ pc' = "done"
    /\ UNCHANGED <<heap, heap0, dom0, call>>

SetAttributesCall ==
    /\ pc = "ready"
    /\ call.op = "setAttributes"
    /\ LET r == setAttributes(heap, dom, call.args[1].v, call.args[2])
       IN /\ dom' = r.dom
          /\ ret' = [NoOutcome EXCEPT !.thrown = r.thrown]
    /\ pc' = "done"
    /\ UNCHANGED <<heap, heap0, dom0, call>>

TagCall ==
    /\ pc = "ready"
    /\ call.op = "tag"
    /\ HtmlOutcome(tag(heap, dom, call.args[1].v, call.args[2], call.args[3]))
    /\ pc' = "done"
    /\ UNCHANGED <<heap0, dom0, call>>

ACall ==
    /\ pc = "ready"
    /\ call.op = "a"
    /\ HtmlOutcome(a(heap, dom, call.args[1], call.args[2], call.args[3]))
    /\ pc' = "done"
    /\ UNCHANGED <<heap0, dom0, call>>

FormCall ==
    /\ pc = "ready"
    /\ call.op = "form"
    /\ HtmlOutcome(form(heap, dom, call.args[1], call.args[2], call.args[3]))
    /\ pc' = "done"
    /\ UNCHANGED <<heap0, dom0, call>>

ButtonCall ==
    /\ pc = "ready"
    /\ call.op = "button"
    /\ HtmlOutcome(button(heap, dom, call.args[1], call.args[2]))
    /\ pc' = "done"
    /\ UNCHANGED <<heap0, dom0, call>>

ResetButtonCall ==
    /\ pc = "ready"
    /\ call.op = "resetButton"
    /\ HtmlOutcome(resetButton(heap, dom, call.args[1], call.args[2]))
    /\ pc' = "done"
    /\ UNCHANGED <<heap0, dom0, call>>

SubmitButtonCall ==
    /\ pc = "ready"
    /\ call.op = "submitButton"
    /\ HtmlOutcome(submitButton(heap, dom, call.args[1], call.args[2]))
    /\ pc' = "done"
    /\ UNCHANGED <<heap0, dom0, call>>

BooleanInputCall ==
    /\ pc = "ready"
    /\ call.op = "booleanInput"
    /\ HtmlOutcome(booleanInput(heap, dom, call.args[1], call.args[2], call.args[3], call.args[4]))
    /\ pc' = "done"
    /\ UNCHANGED <<heap0, dom0, call>>

CheckboxCall ==
    /\ pc = "ready"
    /\ call.op = "checkbox"
    /\ HtmlOutcome(checkbox(heap, dom, call.args[1], call.args[2], call.args[3]))
    /\ pc' = "done"
    /\ UNCHANGED <<heap0, dom0, call>>

RadioCall ==
    /\ pc = "ready"
    /\ call.op = "radio"
    /\ HtmlOutcome(radio(heap, dom, call.args[1], call.args[2], call.args[3]))
    /\ pc' = "done"
    /\ UNCHANGED <<heap0, dom0, call>>

SelectCall ==
    /\ pc = "ready"
    /\ call.op = "select"
    /\ HtmlOutcome(select(heap, dom, call.args[1], call.args[2], call.args[3], call.args[4]))
    /\ pc' = "done"
    /\ UNCHANGED <<heap0, dom0, call>>

ListBoxCall ==
    /\ pc = "ready"
    /\ call.op = "listBox"
    /\ HtmlOutcome(listBox(heap, dom, call.args[1], call.args[2], call.args[3], call.args[4]))
    /\ pc' = "done"
    /\ UNCHANGED <<heap0, dom0, call>>

RenderSelectOptionsCall ==
    /\ pc = "ready"
    /\ call.op = "renderSelectOptions"
    /\ HtmlOutcome(renderSelectOptions(heap, dom, call.args[1], call.args[2], call.args[3]))
    /\ pc' = "done"
    /\ UNCHANGED <<heap0, dom0, call>>

CheckboxListCall ==
    /\ pc = "ready"
    /\ call.op = "checkboxList"
    /\ HtmlOutcome(checkboxList(heap, dom, call.args[1], call.args[2], call.args[3], call.args[4]))
    /\ pc' = "done"
    /\ UNCHANGED <<heap0, dom0, call>>

RadioListCall ==
    /\ pc = "ready"
    /\ call.op = "radioList"
    /\ HtmlOutcome(radioList(heap, dom, call.args[1], call.args[2], call.args[3], call.args[4]))
    /\ pc' = "done"
    /\ UNCHANGED <<heap0, dom0, call>>

UlCall ==
    /\ pc = "ready"
    /\ call.op = "ul"
    /\ HtmlOutcome(ul(heap, dom, call.args[1], call.args[2]))
    /\ pc' = "done"
    /\ UNCHANGED <<heap0, dom0, call>>

OlCall ==
    /\ pc = "ready"
    /\ call.op = "ol"
    /\ HtmlOutcome(ol(heap, dom, call.args[1], call.args[2]))
    /\ pc' = "done"
    /\ UNCHANGED <<heap0, dom0, call>>

AddClassCall ==
    /\ pc = "ready"
    /\ call.op = "addClass"
    /\ LET r == addClass(dom, call.args[1].v, call.args[2])
       IN /\ dom' = r.dom
          /\ ret' = [NoOutcome EXCEPT !.thrown = r.thrown]
    /\ pc' = "done"
    /\ UNCHANGED <<heap, heap0, dom0, call>>

RemoveClassCall ==
    /\ pc = "ready"
    /\ call.op = "removeClass"
    /\ LET r == removeClass(dom, call.args[1].v, call.args[2])
       IN /\ dom' = r.dom
          /\ ret' = [NoOutcome EXCEPT !.thrown = r.thrown]
    /\ pc' = "done"
    /\ UNCHANGED <<heap, heap0, dom0, call>>

ImgCall ==
    /\ pc = "ready"
    /\ call.op = "img"
    /\ HtmlOutcome(img(heap, dom, call.args[1], call.args[2]))
    /\ pc' = "done"
    /\ UNCHANGED <<heap0, dom0, call>>

LabelCall ==
    /\ pc = "ready"
    /\ call.op = "label"
    /\ HtmlOutcome(label(heap, dom, call.args[1], call.args[2], call.args[3]))
    /\ pc' = "done"
    /\ UNCHANGED <<heap0, dom0, call>>

InputCall ==
    /\ pc = "ready"
    /\ call.op = "input"
    /\ HtmlOutcome(input(heap, dom, call.args[1], call.args[2], call.args[3], call.args[4]))
    /\ pc' = "done"
    /\ UNCHANGED <<heap0, dom0, call>>

HtmlNext ==
    \/ RenderContentCall
    \/ SetAttributesCall
    \/ TagCall
    \/ ACall
    \/ FormCall
    \/ ButtonCall
    \/ ResetButtonCall
    \/ SubmitButtonCall
    \/ BooleanInputCall
    \/ CheckboxCall
    \/ RadioCall
    \/ SelectCall
    \/ ListBoxCall
    \/ RenderSelectOptionsCall
    \/ CheckboxListCall
    \/ RadioListCall
    \/ UlCall
    \/ OlCall
    \/ AddClassCall
    \/ RemoveClassCall
    \/ ImgCall
    \/ LabelCall
    \/ InputCall

HtmlSpec == HtmlInit /\ [][HtmlNext]_vars

(***************************************************************************)
(* Vocabulary of the properties.                                           *)
(***************************************************************************)
Target == Head(call.args)
Sources == Tail(call.args)
Done(op) == pc = "done" /\ call.op = op

\* The keys an object owns, as a set.
OwnKeys(h, o) == SeqRange(h[o.v].keys)

RECURSIVE Content(_, _)
\* The content of a value without its identity: a leaf, or the mapping from
\* the keys of an object to the content of their values.
Content(h, value) ==
    IF isObject(value)
    THEN [mapping |-> TRUE, leaf |-> Undefined,
          at |-> [key \in OwnKeys(h, value) |-> Content(h, Get(h, value, key))]]
    ELSE [mapping |-> FALSE, leaf |-> value, at |-> <<>>]

EmptyContent == [mapping |-> TRUE, leaf |-> Undefined, at |-> <<>>]

RECURSIVE TreeMerge(_, _)
\* The deep merge of two contents that are mappings, stated key by key.
TreeMerge(t, s) ==
    [mapping |-> TRUE, leaf |-> Undefined,
     at |-> [key \in (DOMAIN t.at) \cup (DOMAIN s.at) |->
                IF key \notin DOMAIN s.at THEN t.at[key]
                ELSE IF ~s.at[key].mapping THEN s.at[key]
                ELSE IF key \in DOMAIN t.at /\ t.at[key].mapping
                     THEN TreeMerge(t.at[key], s.at[key])
                     ELSE TreeMerge(EmptyContent, s.at[key])]]

\* A call merge(a, b) on two mappings has returned.
MergedTwo ==
    /\ Done("merge")
    /\ Len(call.args) = 2
    /\ isObject(Target)
    /\ isObject(Sources[1])

\* C1: in merge(a, b), for every key k at which a and b both hold a mapping,
\* a[k] is afterwards still the object it was (not b[k], not a new object) and
\* its content is the deep merge of the old a[k] with b[k]: keys only in the
\* old a[k] are kept, keys of b[k] are added or overwritten, at every depth.
C1_DeepMergeOfNestedMappings ==
    MergedTwo =>
        \A key \in OwnKeys(heap0, Target) \cap OwnKeys(heap0, Sources[1]) :
            LET old == Get(heap0, Target, key)
                src == Get(heap0, Sources[1], key)
            IN (isObject(old) /\ isObject(src)) =>
                /\ Get(heap, Target, key) = old
                /\ Get(heap, Target, key) # src
                /\ Content(heap, old) = TreeMerge(Content(heap0, old), Content(heap0, src))
                /\ \A k2 \in OwnKeys(heap0, old) \ OwnKeys(heap0, src) :
                        Content(heap, Get(heap, old, k2)) = Content(heap0, Get(heap0, old, k2))

\* A merge(a, b) where a.a and b.a are mappings that hold mappings themselves,
\* a.a has a key b.a lacks and b.a.a overwrites or adds below a.a.a.
C1_Witness ==
    /\ MergedTwo
    /\ isObject(Get(heap0, Target, "a"))
    /\ isObject(Get(heap0, Sources[1], "a"))
    /\ isObject(Get(heap0, Get(heap0, Target, "a"), "a"))
    /\ isObject(Get(heap0, Get(heap0, Sources[1], "a"), "a"))
    /\ hasOwnProperty(heap0, Get(heap0, Target, "a"), "b")
    /\ ~hasOwnProperty(heap0, Get(heap0, Sources[1], "a"), "b")
    /\ Content(heap, Get(heap, Target, "a")) # Content(heap0, Get(heap0, Target, "a"))
    /\ Content(heap, Get(heap, Target, "a")) # Content(heap0, Get(heap0, Sources[1], "a"))

\* C2: in merge(a, b), for every key k of b whose value is not a mapping,
\* a[k] is afterwards b[k] itself, whatever a[k] was; an array is the same
\* array, not a merged copy.
C2_NonMappingOverwrites ==
    MergedTwo =>
        \A key \in OwnKeys(heap0, Sources[1]) :
            ~isObject(Get(heap0, Sources[1], key)) =>
                /\ hasOwnProperty(heap, Target, key)
                /\ Get(heap, Target, key) = Get(heap0, Sources[1], key)

\* A merge(a, b) where b.a is an array and a.a was a mapping.
C2_Witness ==
    /\ MergedTwo
    /\ isArray(Get(heap0, Sources[1], "a"))
    /\ isObject(Get(heap0, Target, "a"))
    /\ Get(heap, Target, "a") = Get(heap0, Sources[1], "a")

\* C3: in merge(a, b), for every key k at which b holds a mapping and a holds
\* nothing or a non-mapping, the call does not fail, a[k] is afterwards a
\* mapping created by the call (no object that existed before) and its content
\* is the content of b[k].
C3_FreshMappingForNonMappingTarget ==
    MergedTwo =>
        /\ ~Failed(ret)
        /\ \A key \in OwnKeys(heap0, Sources[1]) :
            (isObject(Get(heap0, Sources[1], key)) /\ ~isObject(Get(heap0, Target, key))) =>
                /\ isObject(Get(heap, Target, key))
                /\ Get(heap, Target, key).v > Len(heap0)
                /\ Content(heap, Get(heap, Target, key)) = Content(heap0, Get(heap0, Sources[1], key))

\* A merge(a, b) where b.a is a mapping with content and a.a was a truthy
\* value that is not a mapping (a number, a string, true or an array).
C3_Witness ==
    /\ MergedTwo
    /\ isObject(Get(heap0, Sources[1], "a"))
    /\ Get(heap0, Sources[1], "a") # Get(heap, Target, "a")
    /\ OwnKeys(heap0, Get(heap0, Sources[1], "a")) # {}
    /\ hasOwnProperty(heap0, Target, "a")
    /\ ~isObject(Get(heap0, Target, "a"))
    /\ ToBoolean(Get(heap0, Target, "a"))
    /\ isObject(Get(heap, Target, "a"))

\* A call merge(target, ...sources) has ended and target was not a mapping.
MergeOfNonMapping == Done("merge") /\ ~isObject(Target)

RECURSIVE TreeFold(_, _, _)
\* The deep merge of content t with the contents cs[i], cs[i+1], ... in turn.
TreeFold(t, cs, i) ==
    IF i > Len(cs) THEN t ELSE TreeFold(TreeMerge(t, cs[i]), cs, i + 1)

MappingSources == SelectSeq(Sources, isObject)
ContentsOf(h, values) == [i \in 1..Len(values) |-> Content(h, values[i])]

\* C5: a source that is not a mapping raises no error and changes nothing:
\* the content of target after merge(target, ...sources) is the deep merge of
\* the mapping sources alone, and with no mapping source the heap is untouched.
C5_NonMappingSourcesSkipped ==
    (Done("merge") /\ isObject(Target)) =>
        /\ ~Failed(ret)
        /\ Content(heap, Target) =
                TreeFold(Content(heap0, Target), ContentsOf(heap0, MappingSources), 1)
        /\ (Len(MappingSources) = 0) => (heap = heap0)

\* A merge whose first source is not a mapping and whose second is a mapping
\* that changes target.
C5_Witness ==
    /\ Done("merge")
    /\ isObject(Target)
    /\ Len(Sources) = 2
    /\ ~isObject(Sources[1])
    /\ isObject(Sources[2])
    /\ heap # heap0

\* C6: merge returns the object it was given as target, and merge(target)
\* with no sources leaves every object as it was.
C6_ReturnsTarget ==
    (Done("merge") /\ isObject(Target)) =>
        /\ ~Failed(ret)
        /\ ret.value = Target
        /\ (Len(Sources) = 0) => (heap = heap0)

\* merge(target) with no sources has returned a target that has keys.
C6_Witness ==
    /\ Done("merge")
    /\ isObject(Target)
    /\ Len(Sources) = 0
    /\ OwnKeys(heap, Target) # {}
    /\ ret.value = Target

\* C7: when a and b own no key in common, merge(a, b) leaves a with the keys
\* of both, each with the content it had in a or in b, and that content is
\* the content merge(b, a) gives b from the same inputs.
C7_DisjointKeysUnion ==
    (MergedTwo /\ OwnKeys(heap0, Target) \cap OwnKeys(heap0, Sources[1]) = {}) =>
        /\ OwnKeys(heap, Target) = OwnKeys(heap0, Target) \cup OwnKeys(heap0, Sources[1])
        /\ \A key \in OwnKeys(heap0, Target) :
                Content(heap, Get(heap, Target, key)) = Content(heap0, Get(heap0, Target, key))
        /\ \A key \in OwnKeys(heap0, Sources[1]) :
                Content(heap, Get(heap, Target, key)) = Content(heap0, Get(heap0, Sources[1], key))
        /\ LET swapped == merge(heap0, Sources[1], <<Target>>)
           IN Content(heap, Target) = Content(swapped.heap, swapped.value)

\* A merge(a, b) where a owns only "b" and b owns only "a", a mapping.
C7_Witness ==
    /\ MergedTwo
    /\ OwnKeys(heap0, Target) = {"b"}
    /\ OwnKeys(heap0, Sources[1]) = {"a"}
    /\ isObject(Get(heap0, Sources[1], "a"))
    /\ OwnKeys(heap, Target) = {"a", "b"}

RECURSIVE Nested(_, _, _, _)
\* merge(...merge(merge(target, sources[i]), sources[i+1])..., sources[n])
Nested(h, target, sources, i) ==
    IF i > Len(sources) THEN Returned(h, target, <<>>)
    ELSE LET r == merge(h, target, <<sources[i]>>)
         IN IF Failed(r) THEN r ELSE Nested(r.heap, r.value, sources, i + 1)

\* The last source that owns key, or 0.
LastOwner(h, sources, key) ==
    LET owners == {i \in 1..Len(sources) : isObject(sources[i]) /\ hasOwnProperty(h, sources[i], key)}
    IN IF owners = {} THEN 0 ELSE CHOOSE i \in owners : \A j \in owners : j <= i

\* C8: merge(t, s1, ..., sn) leaves the heap and returns the value that the
\* nested calls merge(...merge(merge(t, s1), s2)..., sn) leave and return, and
\* where the last source that owns a key holds a non-mapping there, target
\* holds that value afterwards.
C8_SourcesLeftToRight ==
    (Done("merge") /\ isObject(Target)) =>
        /\ LET nested == Nested(heap0, Target, Sources, 1)
           IN heap = nested.heap /\ ret.value = nested.value /\ ret.thrown = nested.thrown
        /\ \A key \in Properties :
            LET last == LastOwner(heap0, Sources, key)
            IN (last # 0 /\ ~isObject(Get(heap0, Sources[last], key))) =>
                    Get(heap, Target, key) = Get(heap0, Sources[last], key)

\* A merge(t, s1, s2) where s1 and s2 set the same key to different numbers.
C8_Witness ==
    /\ Done("merge")
    /\ isObject(Target)
    /\ Len(Sources) = 2
    /\ isObject(Sources[1])
    /\ isObject(Sources[2])
    /\ Get(heap0, Sources[1], "b").k = "number"
    /\ Get(heap0, Sources[2], "b").k = "number"
    /\ Get(heap0, Sources[1], "b") # Get(heap0, Sources[2], "b")
    /\ Get(heap, Target, "b") = Get(heap0, Sources[2], "b")

\* The third argument of the pending remove call, if it has one.
SuppliedDefault == Tail(call.args)

\* remove(target, property, ...) has returned and target owned property.
RemovedOwned ==
    /\ Done("remove")
    /\ isObject(Target)
    /\ hasOwnProperty(heap0, Target, call.property)

\* remove(target, property, ...) has returned and target was no mapping or
\* did not own property.
RemovedNothing ==
    /\ Done("remove")
    /\ ~(isObject(Target) /\ hasOwnProperty(heap0, Target, call.property))

\* C9: when target is a mapping that owns key, remove returns the value the
\* key held (also a falsy one, never the default), target no longer owns the
\* key, keeps its other keys in their order with their values, and no other
\* object changes.
C9_RemoveOwnedKey ==
    RemovedOwned =>
        /\ ~Failed(ret)
        /\ ret.value = Get(heap0, Target, call.property)
        /\ ~hasOwnProperty(heap, Target, call.property)
        /\ ObjectKeys(heap, Target) =
                SelectSeq(ObjectKeys(heap0, Target), LAMBDA key : key # call.property)
        /\ \A key \in OwnKeys(heap, Target) : Get(heap, Target, key) = Get(heap0, Target, key)
        /\ Len(heap) = Len(heap0)
        /\ \A o \in 1..Len(heap) : o # Target.v => heap[o] = heap0[o]

\* remove(target, "a", 'default') on a target whose "a" held a falsy value and
\* which owns "b" as well: the falsy value came back, "b" stayed.
C9_Witness ==
    /\ RemovedOwned
    /\ call.property = "a"
    /\ ~ToBoolean(Get(heap0, Target, "a"))
    /\ SuppliedDefault = <<StrDefault>>
    /\ ret.value = Get(heap0, Target, "a")
    /\ OwnKeys(heap, Target) = {"b"}

\* C10: when target is not a mapping or does not own key, remove returns the
\* default it was given, undefined when it was given none, and changes no
\* object.
C10_RemoveReturnsDefault ==
    RemovedNothing =>
        /\ ~Failed(ret)
        /\ ret.value = (IF Len(SuppliedDefault) = 0 THEN Undefined ELSE SuppliedDefault[1])
        /\ heap = heap0

\* remove(target, "c") with no default on a mapping that owns other keys has
\* returned undefined.
C10_Witness ==
    /\ RemovedNothing
    /\ isObject(Target)
    /\ OwnKeys(heap0, Target) = {"a", "b"}
    /\ call.property = "c"
    /\ Len(SuppliedDefault) = 0
    /\ ret.value = Undefined

\* C11: isObject(value) returns the boolean true exactly when value is an
\* object that is not null, not an array and not a function, and the boolean
\* false, never the falsy value itself, for every other value.
C11_IsObjectReturnsBoolean ==
    Done("isObject") =>
        /\ ret.value \in {Bool(0), Bool(1)}
        /\ (ret.value = Bool(1)) <=>
                Target.k \notin {"undefined", "null", "number", "boolean", "string",
                                 "array", "function"}
        /\ heap = heap0

\* isObject has returned false for a falsy value that is not a boolean.
C11_Witness ==
    /\ Done("isObject")
    /\ Target \in {Null, Undefined, Num(0), StrEmpty}
    /\ ret.value = Bool(0)

(***************************************************************************)
(* Vocabulary of the properties of the Html builders.                      *)
(***************************************************************************)
\* The node a builder returned.
Made == ret.value.v
\* The element content was rendered into and the content, for the calls
\* that hand their content to renderContent.
RendersContent ==
    /\ pc = "done"
    /\ \/ call.op = "renderContent"
       \/ call.op = "tag" /\ call.args[1].v \notin voidElements
       \/ call.op = "a" /\ ~Failed(ret)
RenderedInto == IF call.op = "renderContent" THEN call.args[1].v ELSE Made
ContentGiven == IF call.op = "a" THEN call.args[1] ELSE call.args[2]
\* The children the element had before the call.
ChildrenBefore == IF call.op = "renderContent" THEN dom0[call.args[1].v].childNodes ELSE <<>>
\* The options argument of tag and of a.
OptionsGiven == call.args[3]

\* Node n has the text s as its only child.
OneTextChild(n, s) ==
    /\ Len(dom[n].childNodes) = 1
    /\ dom[dom[n].childNodes[1]].nodeType = "text"
    /\ dom[dom[n].childNodes[1]].data = s

\* Every string-valued option is an attribute of node n.
OptionsApplied(n, options) ==
    \A i \in 1..Len(OwnEntries(heap0, options)) :
        LET e == OwnEntries(heap0, options)[i]
        IN e.value.k = "string" /\ e.value # StrEmpty =>
                hasAttribute(dom, n, e.name) /\ getAttribute(dom, n, e.name) = e.value.v

\* The nodes of a collection before the call, in its order.
NodesOf(content) ==
    IF content.k = "nodelist" THEN dom0[content.v].childNodes
    ELSE [i \in 1..Len(content.v) |-> content.v[i].v]

\* C12 as claimed: a string content leaves the element with exactly one text
\* child whose data is the string.
C12_Claimed_OneTextChild ==
    RendersContent /\ typeof(ContentGiven) = "string" =>
        /\ ~Failed(ret)
        /\ OneTextChild(RenderedInto, ContentGiven.v)

\* C12: a string content is inserted as literal text and never parsed as
\* markup: a string that is not empty leaves the element with exactly one
\* child, a text node whose data is the string, whatever markup the string
\* holds; the empty string leaves the element with no child.
C12_StringIsLiteralText ==
    RendersContent /\ typeof(ContentGiven) = "string" =>
        /\ ~Failed(ret)
        /\ IF ContentGiven = StrEmpty THEN dom[RenderedInto].childNodes = <<>>
           ELSE OneTextChild(RenderedInto, ContentGiven.v)
        /\ \A n \in (Len(dom0) + 1)..Len(dom) :
                n # RenderedInto => dom[n].nodeType = "text"

\* renderContent was given '<b>x</b>' and the element holds it as text.
C12_Witness ==
    /\ Done("renderContent")
    /\ ContentGiven = StrMarkup
    /\ ChildrenBefore # <<>>
    /\ OneTextChild(1, StrMarkup.v)

\* C13: an array or a node-list-like collection of n nodes, a live childNodes
\* list included, has all its n nodes appended to the element, each once and
\* in the collection's order.
C13_Claimed_AllNodesAppended ==
    RendersContent /\ (isArray(ContentGiven) \/ ContentGiven.k = "nodelist") =>
        /\ ~Failed(ret)
        /\ dom[RenderedInto].childNodes = ChildrenBefore \o NodesOf(ContentGiven)

FormAction == IF call.args[1] = Undefined THEN <<>> ELSE call.args[1].v
FormMethod == IF call.args[2] = Undefined THEN <<"p", "o", "s", "t">> ELSE call.args[2].v
IsGetWithQuery == toLowerCase(FormMethod) = <<"g", "e", "t">> /\ indexOf(FormAction, "?") # -1
FormQuery == substringFrom(FormAction, indexOf(FormAction, "?") + 1)
QueryPieces == SelectSeq(split(FormQuery, "&"), LAMBDA piece : piece # <<>>)
\* The key and the value of a piece as written, and a string decoded once.
WrittenKey(piece) ==
    IF indexOf(piece, "=") = -1 THEN piece ELSE substring(piece, 0, indexOf(piece, "="))
WrittenValue(piece) ==
    IF indexOf(piece, "=") = -1 THEN <<>> ELSE substringFrom(piece, indexOf(piece, "=") + 1)
DecodedOnce(s) == percentDecode(s)

\* Node n is a hidden input.
IsHiddenInput(n) ==
    /\ dom[n].nodeName = <<"i", "n", "p", "u", "t">>
    /\ hasAttribute(dom, n, "type")
    /\ getAttribute(dom, n, "type") = <<"h", "i", "d", "d", "e", "n">>
\* Attribute name of node n is present and holds s.
AttributeIs(n, name, s) == hasAttribute(dom, n, name) /\ getAttribute(dom, n, name) = s

\* C17: when method is 'get' in any letter case and action holds a "?", the
\* form's action attribute is the part of action before the first "?" and
\* its children are one hidden input per pair of the query string, in the
\* order of the query string; otherwise action is passed through unchanged
\* and the form has no children.
C17_Claimed_FormDecomposition ==
    Done("form") =>
        /\ ~Failed(ret)
        /\ dom[Made].nodeName = <<"f", "o", "r", "m">>
        /\ IF IsGetWithQuery
           THEN /\ AttributeIs(Made, "action", substring(FormAction, 0, indexOf(FormAction, "?")))
                /\ Len(dom[Made].childNodes) = Len(QueryPieces)
                /\ \A i \in 1..Len(QueryPieces) :
                        /\ IsHiddenInput(dom[Made].childNodes[i])
                        /\ AttributeIs(dom[Made].childNodes[i], "name",
                                       DecodedOnce(WrittenKey(QueryPieces[i])))
           ELSE /\ AttributeIs(Made, "action", FormAction)
                /\ dom[Made].childNodes = <<>>

\* C18: in the GET decomposition each hidden input's name and value are the
\* pair's key and value URL-decoded exactly once, a pair with no "=" gives
\* an empty value, and the decomposition does not fail for a well-formed
\* percent-encoded query string.
C18_Claimed_DecodedExactlyOnce ==
    Done("form") /\ IsGetWithQuery =>
        /\ ~Failed(ret)
        /\ Len(dom[Made].childNodes) = Len(QueryPieces)
        /\ \A i \in 1..Len(QueryPieces) :
                /\ AttributeIs(dom[Made].childNodes[i], "name",
                               DecodedOnce(WrittenKey(QueryPieces[i])))
                /\ AttributeIs(dom[Made].childNodes[i], "value",
                               DecodedOnce(WrittenValue(QueryPieces[i])))

\* The entries of the attributes object handed to setAttributes.
AttributesGiven == OwnEntries(heap0, call.args[2])
\* The value the attributes object holds under a name, undefined if none.
AttributeGiven(name) ==
    IF call.args[2] = Undefined THEN Undefined ELSE Get(heap0, call.args[2], name)

\* C19: a key whose value is null, false or the empty string leaves no
\* attribute of that name on the node, boolean attribute or not, and no
\* error is raised.
C19_Claimed_EmptyValuesOmitted ==
    Done("setAttributes") =>
        /\ \A i \in 1..Len(AttributesGiven) :
                AttributesGiven[i].value \in {Null, Bool(0), StrEmpty} =>
                    ~hasAttribute(dom, 1, AttributesGiven[i].name)
        /\ (\A i \in 1..Len(AttributesGiven) : AttributesGiven[i].value \in AttributeValues) =>
                ~Failed(ret)

ButtonTypeGiven == IF call.args[2] = Undefined THEN Undefined ELSE Get(heap0, call.args[2], "type")
C21_ButtonTypes ==
    Done("button") \/ Done("resetButton") \/ Done("submitButton") =>
        /\ ~Failed(ret)
        /\ dom[Made].nodeName = <<"b", "u", "t", "t", "o", "n">>
        /\ AttributeIs(Made, "type",
                CASE call.op = "resetButton" -> <<"r", "e", "s", "e", "t">>
                  [] call.op = "submitButton" -> <<"s", "u", "b", "m", "i", "t">>
                  [] OTHER -> IF ToBoolean(ButtonTypeGiven) THEN ButtonTypeGiven.v
                              ELSE <<"b", "u", "t", "t", "o", "n">>)

\* submitButton on options of type 'menu' has returned a button of type
\* 'submit'.
C21_Witness ==
    /\ Done("submitButton")
    /\ ButtonTypeGiven = Str(<<"m", "e", "n", "u">>)
    /\ AttributeIs(Made, "type", <<"s", "u", "b", "m", "i", "t">>)

\* button on options of type 'menu' has kept that type.
C21_WitnessKept ==
    /\ Done("button")
    /\ ButtonTypeGiven = Str(<<"m", "e", "n", "u">>)
    /\ AttributeIs(Made, "type", <<"m", "e", "n", "u">>)

\* The call of booleanInput, checkbox or radio: its type, name, checked
\* state and options, and an option's value on entry.
IsBooleanInputCall == pc = "done" /\ call.op \in {"booleanInput", "checkbox", "radio"}
BooleanType ==
    CASE call.op = "booleanInput" -> call.args[1].v
      [] call.op = "checkbox" -> <<"c", "h", "e", "c", "k", "b", "o", "x">>
      [] call.op = "radio" -> <<"r", "a", "d", "i", "o">>
BooleanName == call.args[Len(call.args) - 2]
BooleanChecked == call.args[Len(call.args) - 1] = Bool(1)
BooleanOption(name) ==
    IF call.args[Len(call.args)] = Undefined THEN Undefined
    ELSE Get(heap0, call.args[Len(call.args)], name)
\* Node n is the checkbox or radio input the call describes.
IsBooleanInput(n) ==
    /\ dom[n].nodeName = <<"i", "n", "p", "u", "t">>
    /\ AttributeIs(n, "type", BooleanType)
    /\ AttributeIs(n, "name", BooleanName.v)
    /\ AttributeIs(n, "value", JsOr(BooleanOption("value"), Str(<<"1">>)).v)
    /\ BooleanChecked <=> /\ hasEntry(dom[n].properties, "checked")
                          /\ getEntry(dom[n].properties, "checked") = Bool(1)
\* The call returned the input in a label element, followed by a text node
\* of the label; the call returned the input bare.
ReturnedLabelled ==
    /\ ~Failed(ret)
    /\ dom[Made].nodeName = <<"l", "a", "b", "e", "l">>
    /\ Len(dom[Made].childNodes) = 2
    /\ IsBooleanInput(dom[Made].childNodes[1])
    /\ dom[dom[Made].childNodes[2]].nodeType = "text"
    /\ textContent(dom, Made) = BooleanOption("label").v
ReturnedBare ==
    /\ ~Failed(ret)
    /\ IsBooleanInput(Made)
    /\ \A n \in 1..Len(dom) : dom[n].nodeName # <<"l", "a", "b", "e", "l">>

(***************************************************************************)
(* C22 as claimed: booleanInput, checkbox and radio with options.label set *)
(* return a label element whose children are the input (of the given type, *)
(* name and checked state, its value options.value or "1") and a text      *)
(* node, and whose visible text is the label; without options.label they   *)
(* return the input bare and make no label element.                        *)
(***************************************************************************)
C22_Claimed_LabelWrapsInput ==
    IsBooleanInputCall =>
        IF ToBoolean(BooleanOption("label")) THEN ReturnedLabelled ELSE ReturnedBare

\* C22 holds in every call that does not ask for a hidden input.
C22_LabelWrapsInputWithoutUncheck ==
    IsBooleanInputCall /\ ~ToBoolean(BooleanOption("uncheck")) =>
        IF ToBoolean(BooleanOption("label")) THEN ReturnedLabelled ELSE ReturnedBare

\* A checked checkbox with the label '<b>x</b>' has come back in a label.
C22_WitnessLabelled ==
    /\ Done("checkbox")
    /\ BooleanChecked
    /\ BooleanOption("label") = StrMarkup
    /\ ReturnedLabelled

\* The nodes under node n, n included.
RECURSIVE Within(_, _)
Within(d, n) == {n} \cup UNION {Within(d, d[n].childNodes[i]) : i \in 1..Len(d[n].childNodes)}
\* Node n is the hidden input that submits options.uncheck under the name.
IsUncheckInput(n) ==
    /\ IsHiddenInput(n)
    /\ AttributeIs(n, "name", BooleanName.v)
    /\ AttributeIs(n, "value", BooleanOption("uncheck").v)

(***************************************************************************)
(* C23 as claimed: with options.uncheck set the result holds a hidden      *)
(* input named name whose value is options.uncheck; without a label the    *)
(* result's children are that hidden input and, right after it, the        *)
(* checkbox or radio; the hidden input is never inside a label element.    *)
(***************************************************************************)
C23_Claimed_HiddenInputEmitted ==
    IsBooleanInputCall /\ ToBoolean(BooleanOption("uncheck")) =>
        /\ ~Failed(ret)
        /\ \E n \in Within(dom, Made) : IsUncheckInput(n)
        /\ ~ToBoolean(BooleanOption("label")) =>
                /\ Len(dom[Made].childNodes) = 2
                /\ IsUncheckInput(dom[Made].childNodes[1])
                /\ IsBooleanInput(dom[Made].childNodes[2])
        /\ \A l \in 1..Len(dom) :
                dom[l].nodeName = <<"l", "a", "b", "e", "l">> =>
                    \A n \in Within(dom, l) : ~IsUncheckInput(n)

\* A call of select or listBox with options.multiple true: the name given,
\* an option's value on entry, and the name without a '[]' at its end.
IsMultipleSelect ==
    /\ pc = "done"
    /\ call.op \in {"select", "listBox"}
    /\ call.args[4] # Undefined
    /\ ToBoolean(Get(heap0, call.args[4], "multiple"))
SelectName == call.args[1].v
SelectOption(name) == Get(heap0, call.args[4], name)
StrippedName ==
    IF endsWith(SelectName, <<"[", "]">>) THEN SubSeq(SelectName, 1, Len(SelectName) - 2)
    ELSE SelectName
\* Node n is a select element with the name and the size a multiple select
\* is to have.
IsMultipleSelectElement(n) ==
    /\ dom[n].nodeName = <<"s", "e", "l", "e", "c", "t">>
    /\ AttributeIs(n, "name", StrippedName \o <<"[", "]">>)
    /\ AttributeIs(n, "size", IF ToBoolean(SelectOption("size"))
                              THEN toString(SelectOption("size")) ELSE <<"4">>)

(***************************************************************************)
(* C24 as claimed: with options.multiple true the select element's name is *)
(* the given name ending in exactly one '[]', its size is 4 unless         *)
(* options.size was given, and with options.unselect a hidden input with   *)
(* that value, named without the '[]', comes before the select element.    *)
(***************************************************************************)
C24_Claimed_MultipleSelect ==
    IsMultipleSelect =>
        /\ ~Failed(ret)
        /\ IF ToBoolean(SelectOption("unselect"))
           THEN /\ Len(dom[Made].childNodes) = 2
                /\ IsHiddenInput(dom[Made].childNodes[1])
                /\ AttributeIs(dom[Made].childNodes[1], "name", StrippedName)
                /\ AttributeIs(dom[Made].childNodes[1], "value",
                               SelectOption("unselect").v)
                /\ IsMultipleSelectElement(dom[Made].childNodes[2])
           ELSE /\ Len(dom[Made].childNodes) = 1
                /\ IsMultipleSelectElement(dom[Made].childNodes[1])

\* C24 without the name of the hidden input: the select element has the
\* name and the size claimed, and the hidden input comes before it.
C24_NameAndSize ==
    IsMultipleSelect =>
        /\ ~Failed(ret)
        /\ IsMultipleSelectElement(dom[Made].childNodes[Len(dom[Made].childNodes)])
        /\ ToBoolean(SelectOption("unselect")) =>
                /\ Len(dom[Made].childNodes) = 2
                /\ IsHiddenInput(dom[Made].childNodes[1])
                /\ AttributeIs(dom[Made].childNodes[1], "value",
                               SelectOption("unselect").v)

\* The calls that make one element per entry of an items object: the items
\* and the selection handed in, and whether a key is a member of the
\* selection (a single value counting as a set of one, null as none).
MakesEntryItems == pc = "done" /\ call.op \in {"renderSelectOptions", "checkboxList", "radioList"}
ItemsGiven == OwnEntries(heap0, IF call.op = "renderSelectOptions" THEN call.args[2] ELSE call.args[3])
SelectionGiven == IF call.op = "renderSelectOptions" THEN call.args[1] ELSE call.args[2]
InSelection(key) ==
    IF isArray(SelectionGiven) THEN includes(SelectionGiven.v, Str(KeyString(key)))
    ELSE SelectionGiven = Str(KeyString(key))
\* The elements made for the entries: the children of the result that are
\* elements, the hidden input of options.unselect left out.
ItemNodes ==
    SelectSeq(dom[Made].childNodes,
              LAMBDA n : dom[n].nodeType = "element" /\ ~IsHiddenInput(n))
\* The input of an item: the item itself, or the first child of its label.
InputOf(n) == IF dom[n].nodeName = <<"l", "a", "b", "e", "l">> THEN dom[n].childNodes[1] ELSE n
\* Property name of node n is set to true.
PropertyIsTrue(n, name) ==
    hasEntry(dom[n].properties, name) /\ getEntry(dom[n].properties, name) = Bool(1)
\* Item n is the option, checkbox or radio of the key, marked or not.
IsItemOf(n, key, marked) ==
    IF call.op = "renderSelectOptions"
    THEN /\ dom[n].nodeName = <<"o", "p", "t", "i", "o", "n">>
         /\ hasEntry(dom[n].properties, "value")
         /\ getEntry(dom[n].properties, "value") = Str(KeyString(key))
         /\ marked <=> PropertyIsTrue(n, "selected")
    ELSE /\ dom[InputOf(n)].nodeName = <<"i", "n", "p", "u", "t">>
         /\ AttributeIs(InputOf(n), "type",
                        IF call.op = "checkboxList" THEN <<"c", "h", "e", "c", "k", "b", "o", "x">> ELSE <<"r", "a", "d", "i", "o">>)
         /\ AttributeIs(InputOf(n), "value", KeyString(key))
         /\ marked <=> PropertyIsTrue(InputOf(n), "checked")

(***************************************************************************)
(* C25 as claimed: renderSelectOptions, checkboxList and radioList make    *)
(* exactly one option, checkbox or radio per entry of items, in the order  *)
(* of items, marked selected or checked if and only if its key is a member *)
(* of the selection; with the selection null no entry is marked, whatever  *)
(* the keys are.                                                           *)
(***************************************************************************)
C25_Claimed_MarkedIffSelected ==
    MakesEntryItems =>
        /\ ~Failed(ret)
        /\ Len(ItemNodes) = Len(ItemsGiven)
        /\ \A i \in 1..Len(ItemsGiven) :
                IsItemOf(ItemNodes[i], ItemsGiven[i].name, InSelection(ItemsGiven[i].name))

\* C25 holds of renderSelectOptions and of checkboxList.
C25_OptionsAndCheckboxes ==
    MakesEntryItems /\ call.op # "radioList" =>
        /\ ~Failed(ret)
        /\ Len(ItemNodes) = Len(ItemsGiven)
        /\ \A i \in 1..Len(ItemsGiven) :
                IsItemOf(ItemNodes[i], ItemsGiven[i].name, InSelection(ItemsGiven[i].name))

\* The calls that take a separator: the separator given, the number of
\* items, and the children of the list, the hidden input of
\* options.unselect left out.
TakesSeparator == pc = "done" /\ call.op \in {"checkboxList", "radioList", "ul", "ol"}
ListOptionsGiven == call.args[Len(call.args)]
SeparatorGiven ==
    IF ListOptionsGiven = Undefined THEN Undefined
    ELSE Get(heap0, ListOptionsGiven, "separator")
ItemCount ==
    IF call.op \in {"ul", "ol"} THEN Len(call.args[1].v)
    ELSE Len(OwnEntries(heap0, call.args[3]))
ListChildren == SelectSeq(dom[Made].childNodes, LAMBDA n : ~IsHiddenInput(n))
IsSeparator(n) == dom[n].nodeType = "text" /\ dom[n].data = SeparatorGiven.v

(***************************************************************************)
(* C26 as claimed: a separator given to checkboxList, radioList, ul or ol  *)
(* stands between consecutive items only, so n >= 1 items come with        *)
(* exactly n - 1 separators, none before the first or after the last; when *)
(* no separator is given the output holds none.                            *)
(***************************************************************************)
C26_Claimed_SeparatorsBetweenItems ==
    TakesSeparator =>
        /\ ~Failed(ret)
        /\ IF ToBoolean(SeparatorGiven) /\ ItemCount >= 1
           THEN /\ Len(ListChildren) = 2 * ItemCount - 1
                /\ \A j \in 1..Len(ListChildren) :
                        IF j % 2 = 0 THEN IsSeparator(ListChildren[j])
                        ELSE dom[ListChildren[j]].nodeType = "element"
           ELSE /\ Len(ListChildren) = ItemCount
                /\ \A j \in 1..Len(ListChildren) :
                        dom[ListChildren[j]].nodeType = "element"

\* C26 holds of checkboxList and of radioList.
C26_SeparatorsInInputLists ==
    TakesSeparator /\ call.op \in {"checkboxList", "radioList"} =>
        /\ ~Failed(ret)
        /\ IF ToBoolean(SeparatorGiven) /\ ItemCount >= 1
           THEN /\ Len(ListChildren) = 2 * ItemCount - 1
                /\ \A j \in 1..Len(ListChildren) :
                        IF j % 2 = 0 THEN IsSeparator(ListChildren[j])
                        ELSE dom[ListChildren[j]].nodeType = "element"
           ELSE /\ Len(ListChildren) = ItemCount
                /\ \A j \in 1..Len(ListChildren) :
                        dom[ListChildren[j]].nodeType = "element"

\* The li of an item: an element item is its only child, any other item is
\* its text.
IsLiOf(n, item) ==
    /\ dom[n].nodeName = <<"l", "i">>
    /\ IF isNode(item) THEN dom[n].childNodes = <<item.v>>
       ELSE textContent(dom, n) = toString(item)

(***************************************************************************)
(* C27: ul and ol (no options.item callback is passed) return a 'ul' and   *)
(* an 'ol' element whose children are exactly one li per item, in the      *)
(* order of the items; an empty items array gives the element with no      *)
(* child, and no error is raised.                                          *)
(***************************************************************************)
C27_OneLiPerItem ==
    Done("ul") \/ Done("ol") =>
        /\ ~Failed(ret)
        /\ dom[Made].nodeName = (IF call.op = "ul" THEN <<"u", "l">> ELSE <<"o", "l">>)
        /\ Len(dom[Made].childNodes) = Len(call.args[1].v)
        /\ \A i \in 1..Len(call.args[1].v) :
                IsLiOf(dom[Made].childNodes[i], call.args[1].v[i])

\* ol has returned an ol element with three li for a string, an element and
\* a number.
C27_Witness ==
    /\ Done("ol")
    /\ Len(call.args[1].v) = 3
    /\ ~Failed(ret)
    /\ dom[Made].nodeName = <<"o", "l">>
    /\ Len(dom[Made].childNodes) = 3

\* ul has returned an empty ul element for no items.
C27_WitnessEmpty ==
    /\ Done("ul")
    /\ call.args[1].v = <<>>
    /\ ~Failed(ret)
    /\ dom[Made].childNodes = <<>>

\* A call of addClass or removeClass with one class name given as a
\* string, the class list of the element before and after it.
ClassNameGiven == call.args[2].v
ClassesBefore == classList(dom0, call.args[1].v)
ClassesAfter == classList(dom, call.args[1].v)
HasClass(classes, name) == \E i \in 1..Len(classes) : classes[i] = name

(***************************************************************************)
(* C28 as claimed: addClass and removeClass take a class name given as a   *)
(* string as one whole token.  After addClass the class list is the list   *)
(* before plus the name, with no duplicate when the name was in it; after  *)
(* removeClass the name is gone and every other class is kept, and the     *)
(* list is unchanged when the name was not in it.                          *)
(***************************************************************************)
C28_Claimed_OneWholeToken ==
    (Done("addClass") \/ Done("removeClass")) /\ call.args[2].k = "string" =>
        /\ ~Failed(ret)
        /\ IF call.op = "addClass"
           THEN ClassesAfter = IF HasClass(ClassesBefore, ClassNameGiven) THEN ClassesBefore
                               ELSE Append(ClassesBefore, ClassNameGiven)
           ELSE ClassesAfter = SelectSeq(ClassesBefore, LAMBDA c : c # ClassNameGiven)

\* C28 holds of a class name of one character.
C28_OneCharacterName ==
    (Done("addClass") \/ Done("removeClass")) /\ call.args[2].k = "string"
        /\ Len(ClassNameGiven) = 1 =>
        /\ ~Failed(ret)
        /\ IF call.op = "addClass"
           THEN ClassesAfter = IF HasClass(ClassesBefore, ClassNameGiven) THEN ClassesBefore
                               ELSE Append(ClassesBefore, ClassNameGiven)
           ELSE ClassesAfter = SelectSeq(ClassesBefore, LAMBDA c : c # ClassNameGiven)

RECURSIVE ObjectsOf(_, _)
\* The objects of heap h that a value reaches: the object it refers to and
\* the objects its values reach.
ObjectsOf(h, value) ==
    IF value.k # "object" THEN {}
    ELSE {value.v} \cup UNION {ObjectsOf(h, h[value.v].at[key]) : key \in OwnKeys(h, value)}
\* The sources of the call and the mappings nested in them, before the call.
SourceObjects == UNION {ObjectsOf(heap0, Sources[i]) : i \in 1..Len(Sources)}

BuilderOptions == call.args[Len(call.args)]
CalledWithOptions ==
    /\ pc = "done"
    /\ call.op \notin {"renderContent", "setAttributes", "addClass", "removeClass"}
    /\ BuilderOptions.k = "object"
DerivedKeys == {"href", "src", "for", "type", "name", "value", "size", "tag"}
KeyKept(key) ==
    /\ hasOwnProperty(heap, BuilderOptions, key)
    /\ Get(heap, BuilderOptions, key) = Get(heap0, BuilderOptions, key)

(***************************************************************************)
(* C30 as claimed: a builder neither deletes nor changes a key of the      *)
(* caller's options object, apart from the keys it derives from its        *)
(* positional parameters (href, src, for, type, name, value, size, tag),   *)
(* and form leaves the options object as it was.                           *)
(***************************************************************************)
C30_Claimed_OptionsKept ==
    CalledWithOptions =>
        /\ \A key \in OwnKeys(heap0, BuilderOptions) \ DerivedKeys : KeyKept(key)
        /\ call.op = "form" => heap[BuilderOptions.v] = heap0[BuilderOptions.v]

\* C30 holds of every builder but select and listBox.
C30_OptionsKeptButBySelect ==
    CalledWithOptions /\ call.op \notin {"select", "listBox"} =>
        /\ \A key \in OwnKeys(heap0, BuilderOptions) \ DerivedKeys : KeyKept(key)
        /\ call.op = "form" => heap[BuilderOptions.v] = heap0[BuilderOptions.v]

====
